---- MODULE Spec2Model ----
(***************************************************************************)
(* A model of the COMIC-AI generation core: the API key pool               *)
(* (services/apiKeyManager.ts), the key-rotating call wrapper              *)
(* geminiApiCall (services/geminiService.ts), the chapter generation       *)
(* pipeline of the App component (handleGenerateStory and its helpers)     *)
(* and its single-panel operations (handleRegeneratePanel,                 *)
(* handleEditPanel, the lettering element handlers).                       *)
(*                                                                         *)
(* JavaScript runs one handler at a time: a step of the model is one       *)
(* synchronous stretch of code, from an event (a click, a backend          *)
(* response) to the next await that has to wait for the network.           *)
(***************************************************************************)
EXTENDS Integers, Sequences, FiniteSets, TLC

(***************************************************************************)
(* Bounds of the model.                                                    *)
(***************************************************************************)
\* how many hardcoded entries userApiKeys holds at most
MaxUserKeys == 2
\* how many direct getNextKey calls a behaviour of SpecKeyPool logs
MaxLog == 24
\* how many service calls a behaviour makes, one at a time or overlapping
MaxCallers == 2
\* how many panels a generated script holds at most
MaxPanels == 2

\* how many times handleGenerateStory is invoked
MaxRuns == 1

\* how many times a project is opened from the dashboard
MaxLoads == 1

\* how many times the keys are tested
MaxKeyTests == 1

\* how many times handleRegeneratePanel and handleEditPanel are invoked,
\* one after the other or overlapping
MaxOps == 2

\* how many times the lettering element handlers are invoked
MaxLetteringEdits == 1

\* how many hardcoded entries userApiKeys holds at most while single panels
\* are regenerated and edited
MaxOpUserKeys == 0

\* how many panels the script of SpecStory holds
StoryPanels == 3

\* how many times handleReorderPages is invoked
MaxReorders == 2

\* how many single-panel operations a behaviour of SpecEditModal makes
ModalOps == 3

\* how many times handleGenerateStory is invoked in SpecRuns
MaxStoryRuns == 2

\* how many hardcoded entries userApiKeys holds at most in SpecRuns
MaxRunUserKeys == 1

VARIABLES
    apiKeys,            \* apiKeyManager.ts: the credential pool
    currentKeyIndex,    \* apiKeyManager.ts: the round-robin cursor
    keyLog,             \* what successive direct getNextKey calls returned
    calls,              \* the geminiApiCall invocations of the service callers
    apiKeyStatuses,     \* App state: the result of the last key test
    isApiStatusModalOpen, \* App state
    keyTest,            \* whether a testApiKeys run is in flight
    isLoading,          \* App state: the full-screen Loader is shown
    isCancellable,      \* App state: the Loader offers "Stop Generation"
    view,               \* App state: dashboard or project
    currentProject,     \* App state: the open project, or NoProject
    projects,           \* App state: the saved projects (one, in this model)
    generationCancelledRef, \* App ref: the cancellation flag
    runPc,              \* where the handleGenerateStory run stands
    loads,              \* how many times handleLoadProject was invoked
    keyTests,           \* how many times handleTestApiKeys was invoked
    runs,               \* how many times handleGenerateStory was invoked
    runChapter,         \* handleGenerateStory: the title of its chapter argument
    pagesWithImages,    \* handleGenerateStory: its working panel list
    finalPages,         \* handleGenerateStory: the list its lettering merge builds
    panelIndex,         \* handleGenerateStory: the loop variable i (0-based)
    scriptCall,         \* the geminiApiCall of generateStory
    imageCall,          \* per panel, the geminiApiCall of generatePanelImage
    imageRequest,       \* per panel, the arguments generatePanelImage was given
    letteringCall,      \* per panel, the geminiApiCall of analyzePanelForLettering
    letteringPromises,  \* per panel, the entry of letteringPromises
    letteringOrder,     \* the panels in the order their lettering calls ended
    panelOps,           \* the handleRegeneratePanel and handleEditPanel invocations
    letteringEdits,     \* how many times a lettering element handler was invoked
    reorders,           \* the (dragIndex, dropIndex) of each handleReorderPages so far
    editingPanelIndex   \* StoryDisplay state: the panel of the open EditPanelModal

keyVars == <<apiKeys, currentKeyIndex, keyLog, calls>>

uiVars == <<loads, keyTests, apiKeyStatuses, isApiStatusModalOpen, keyTest, isLoading,
            isCancellable, view, currentProject, projects>>

runVars == <<generationCancelledRef, runPc, runs, runChapter, pagesWithImages,
             finalPages, panelIndex, scriptCall, imageCall, imageRequest,
             letteringCall, letteringPromises, letteringOrder>>

opVars == <<panelOps, letteringEdits, reorders, editingPanelIndex>>

vars == <<keyVars, uiVars, runVars, opVars>>

(***************************************************************************)
(* Text.  A string of the program is looked at character by character      *)
(* where the code searches it: Chars gives the characters of the strings   *)
(* the model uses.                                                         *)
(***************************************************************************)
Chars(s) ==
    CASE s = "Error" ->
           <<"E","r","r","o","r">>
      [] s = "ApiError" ->
           <<"A","p","i","E","r","r","o","r">>
      [] s = "GeminiApiError" ->
           <<"G","e","m","i","n","i","A","p","i","E","r","r","o","r">>
      [] s = "429 RESOURCE_EXHAUSTED" ->
           <<"4","2","9"," ","R","E","S","O","U","R","C","E","_","E","X","H","A","U","S","T","E","D">>
      [] s = "Quota exceeded" ->
           <<"Q","u","o","t","a"," ","e","x","c","e","e","d","e","d">>
      [] s = "Rate Limit reached" ->
           <<"R","a","t","e"," ","L","i","m","i","t"," ","r","e","a","c","h","e","d">>
      [] s = "API key not valid" ->
           <<"A","P","I"," ","k","e","y"," ","n","o","t"," ","v","a","l","i","d">>
      [] s = "500 Internal error" ->
           <<"5","0","0"," ","I","n","t","e","r","n","a","l"," ","e","r","r","o","r">>
      [] s = "No API keys are available or all have failed." ->
           <<"N","o"," ","A","P","I"," ","k","e","y","s"," ","a","r","e"," ","a","v","a","i","l","a","b","l","e"," ","o","r"," ","a","l","l"," ","h","a","v","e"," ","f","a","i","l","e","d",".">>
      [] s = "All API keys have reached their rate limits." ->
           <<"A","l","l"," ","A","P","I"," ","k","e","y","s"," ","h","a","v","e"," ","r","e","a","c","h","e","d"," ","t","h","e","i","r"," ","r","a","t","e"," ","l","i","m","i","t","s",".">>
      [] s = "No image was generated for the story panel." ->
           <<"N","o"," ","i","m","a","g","e"," ","w","a","s"," ","g","e","n","e","r","a","t","e","d"," ","f","o","r"," ","t","h","e"," ","s","t","o","r","y"," ","p","a","n","e","l",".">>
      [] s = "Story generation failed: The API returned an empty response." ->
           <<"S","t","o","r","y"," ","g","e","n","e","r","a","t","i","o","n"," ","f","a","i","l","e","d",":"," ","T","h","e"," ","A","P","I"," ","r","e","t","u","r","n","e","d"," ","a","n"," ","e","m","p","t","y"," ","r","e","s","p","o","n","s","e",".">>
      [] s = "Failed to parse story generation response." ->
           <<"F","a","i","l","e","d"," ","t","o"," ","p","a","r","s","e"," ","s","t","o","r","y"," ","g","e","n","e","r","a","t","i","o","n"," ","r","e","s","p","o","n","s","e",".">>
      [] s = "Failed to parse lettering data." ->
           <<"F","a","i","l","e","d"," ","t","o"," ","p","a","r","s","e"," ","l","e","t","t","e","r","i","n","g"," ","d","a","t","a",".">>
      [] s = "No edited image was generated." ->
           <<"N","o"," ","e","d","i","t","e","d"," ","i","m","a","g","e"," ","w","a","s"," ","g","e","n","e","r","a","t","e","d",".">>
      [] s = "rate limit" ->
           <<"r","a","t","e"," ","l","i","m","i","t">>
      [] s = "quota" ->
           <<"q","u","o","t","a">>
      [] s = "resource_exhausted" ->
           <<"r","e","s","o","u","r","c","e","_","e","x","h","a","u","s","t","e","d">>
      [] s = "rate limits" ->
           <<"r","a","t","e"," ","l","i","m","i","t","s">>

\* the upper-case letters and their lower-case forms
UpperCase == <<"A","B","C","D","E","F","G","H","I","J","K","L","M",
               "N","O","P","Q","R","S","T","U","V","W","X","Y","Z">>

LowerCase == <<"a","b","c","d","e","f","g","h","i","j","k","l","m",
               "n","o","p","q","r","s","t","u","v","w","x","y","z">>

\* String.prototype.toLowerCase, one character
toLowerChar(c) ==
    IF \E k \in 1..Len(UpperCase) : UpperCase[k] = c
    THEN LowerCase[CHOOSE k \in 1..Len(UpperCase) : UpperCase[k] = c]
    ELSE c

\* String.prototype.toLowerCase
toLowerCase(cs) == [k \in 1..Len(cs) |-> toLowerChar(cs[k])]

\* String.prototype.includes (case-sensitive substring search)
includes(hay, needle) ==
    \E k \in 0..(Len(hay) - Len(needle)) :
        SubSeq(hay, k + 1, k + Len(needle)) = needle

(***************************************************************************)
(* Errors.  An error is its class name, its message and, for a             *)
(* GeminiApiError, its userFriendlyMessage.                                *)
(***************************************************************************)
PlainError(msg) == [name |-> "Error", message |-> msg, userFriendlyMessage |-> ""]

SdkError(msg) == [name |-> "ApiError", message |-> msg, userFriendlyMessage |-> ""]

GeminiApiError(msg, friendly) ==
    [name |-> "GeminiApiError", message |-> msg, userFriendlyMessage |-> friendly]

\* Error.prototype.toString: "<name>: <message>"
errorToString(e) == Chars(e.name) \o <<":", " ">> \o Chars(e.message)

\* the errors the backend raises inside ai.models.generateContent
ErrResourceExhausted == SdkError("429 RESOURCE_EXHAUSTED")
ErrQuotaExceeded == SdkError("Quota exceeded")
ErrRateLimitReached == SdkError("Rate Limit reached")
ErrInvalidKey == SdkError("API key not valid")
ErrInternal == SdkError("500 Internal error")

BackendErrors ==
    {ErrResourceExhausted, ErrQuotaExceeded, ErrRateLimitReached, ErrInvalidKey,
     ErrInternal}

\* lines 18-23, computed on the characters of error.toString()
rateLimitMarkers(error) ==
    LET errorMessage == toLowerCase(errorToString(error))
    IN  \/ includes(errorMessage, Chars("rate limit"))
        \/ includes(errorMessage, Chars("quota"))
        \/ includes(errorMessage, Chars("resource_exhausted"))

\* the GeminiApiErrors apiLogic raises itself on an unusable response:
\* generatePanelImage lines 530-533, generateStory lines 365-368 and 376-379,
\* analyzePanelForLettering lines 661-664
ErrNoImage ==
    GeminiApiError("No image was generated for the story panel.",
                   "The panel generation was blocked, possibly due to a content safety filter. Please try regenerating or modifying the story.")

ErrEmptyScript ==
    GeminiApiError("Story generation failed: The API returned an empty response.",
                   "The story script generation was blocked, possibly due to a content safety filter. Please try modifying the chapter text.")

ErrParseScript ==
    GeminiApiError("Failed to parse story generation response.",
                   "The API returned an invalid format for the story script. Please try again.")

ErrParseLettering ==
    GeminiApiError("Failed to parse lettering data.",
                   "The API returned an invalid format for lettering analysis. Please try regenerating the panel.")

\* editPanelImage lines 726-729
ErrNoEditedImage ==
    GeminiApiError("No edited image was generated.",
                   "The image edit was blocked, possibly due to a content safety filter. Please try a different edit prompt.")

ApiLogicErrors ==
    {ErrNoImage, ErrEmptyScript, ErrParseScript, ErrParseLettering, ErrNoEditedImage}

\* geminiApiCall, line 48: the value lastError starts with
InitialLastError == PlainError("No API keys are available or all have failed.")

\* geminiApiCall, lines 72-75: what it throws when every key was rate-limited
AllKeysRateLimitedError ==
    GeminiApiError("All API keys have reached their rate limits.",
                   "All available API keys have reached their daily limit. Please try again tomorrow or add new keys.")

\* every error value of the model
KnownErrors ==
    BackendErrors \cup ApiLogicErrors \cup {InitialLastError, AllKeysRateLimitedError}

\* rateLimitMarkers of every error, computed once
RateLimitTable == [e \in KnownErrors |-> rateLimitMarkers(e)]

isRateLimitError(error) == RateLimitTable[error]

(***************************************************************************)
(* apiKeyManager.ts                                                        *)
(***************************************************************************)
\* process.env.API_KEY: unset, or a key
EnvKeys == {"", "ENVKEY"}

\* the hardcoded userApiKeys list, with n entries
userApiKeys(n) == [k \in 1..n |-> "AIza" \o ToString(k)]

\* lines 10-13: the primary key first, then the user keys, empty entries dropped
loadApiKeys(env, user) ==
    SelectSeq((IF env # "" THEN <<env>> ELSE <<>>) \o user, LAMBDA key : key # "")

getTotalKeys == Len(apiKeys)

getApiKeys == [k \in 1..Len(apiKeys) |-> apiKeys[k]]

\* currentKeyIndex = (currentKeyIndex + 1) % apiKeys.length
\* the cursor moved on without the wrap
advanceCursor_NoWrap(cursor) == cursor + 1

advanceCursor(cursor) == (cursor + 1) % Len(apiKeys)

\* getNextKey with the cursor advanced before it is read
getNextKey_AdvanceFirst(cursor) ==
    [key |-> apiKeys[advanceCursor(cursor) + 1], index |-> advanceCursor(cursor),
     cursor |-> advanceCursor(cursor)]

\* getNextKey called with the cursor at `cursor`: what it returns, and the
\* cursor it leaves (sequences are 1-based here, arrays 0-based in the code)
getNextKey(cursor) ==
    [key |-> apiKeys[cursor + 1], index |-> cursor, cursor |-> advanceCursor(cursor)]

(***************************************************************************)
(* geminiApiCall (geminiService.ts, lines 46-78).  A call is the state of  *)
(* one invocation: its loop counter i, the key index of the attempt in     *)
(* flight, the indices it has used so far (one per invocation of           *)
(* apiLogic), its lastError, and how it ended.  Two fields are kept for    *)
(* the properties only, and no operator of the code reads them: answers,  *)
(* what each attempt came to (ok, rate-limit or other), raised, the error *)
(* of the last attempt, and start, the cursor the call began at.          *)
(***************************************************************************)
NoError == [name |-> "", message |-> "", userFriendlyMessage |-> ""]

IdleCall ==
    [st |-> "idle", i |-> 0, index |-> 0, tried |-> <<>>,
     lastError |-> InitialLastError, thrown |-> NoError, result |-> "",
     answers |-> <<>>, raised |-> NoError, start |-> 0]

\* what apiLogic(ai) comes to: a value, or an error it throws
Returns(v) == [ok |-> TRUE, value |-> v, error |-> NoError]

Throws(e) == [ok |-> FALSE, value |-> "", error |-> e]

\* the end of the loop throwing the last key's error as it is
allKeysFailed_ThrowsLast(call) ==
    [call EXCEPT !.st = "thrown", !.thrown = call.lastError]

\* lines 69-77: the loop is over and no attempt returned
allKeysFailed(call) ==
    [call EXCEPT !.st = "thrown",
                 !.thrown = IF isRateLimitError(call.lastError)
                            THEN AllKeysRateLimitedError
                            ELSE call.lastError]

\* the loop with one turn too many (i <= totalKeys)
loopTurn_OneTooMany(call, cursor) ==
    IF call.i <= getTotalKeys
    THEN LET next == getNextKey(cursor)
         IN  [call |-> [call EXCEPT !.st = "awaiting",
                                    !.index = next.index,
                                    !.tried = Append(@, next.index)],
              cursor |-> next.cursor]
    ELSE [call |-> allKeysFailed(call), cursor |-> cursor]

\* lines 50-54: the loop test, and an attempt with the next key
loopTurn(call, cursor) ==
    IF call.i < getTotalKeys
    THEN LET next == getNextKey(cursor)
         IN  [call |-> [call EXCEPT !.st = "awaiting",
                                    !.index = next.index,
                                    !.tried = Append(@, next.index)],
              cursor |-> next.cursor]
    ELSE [call |-> allKeysFailed(call), cursor |-> cursor]

\* a call that begins at the first key whatever the cursor
geminiApiCallStart_FromFirstKey(cursor) == loopTurn([IdleCall EXCEPT !.start = 0], 0)

\* lines 47-50: the call up to its first await
geminiApiCallStart(cursor) == loopTurn([IdleCall EXCEPT !.start = cursor], cursor)

\* the catch block without the fail-fast branch: every error moves on to
\* the next key
catchError_RetryAll(call, cursor, error) ==
    loopTurn([call EXCEPT !.lastError = error, !.i = @ + 1], cursor)

\* lines 56-66: the catch block
catchError(call, cursor, error) ==
    IF isRateLimitError(error)
    THEN loopTurn([call EXCEPT !.lastError = error, !.i = @ + 1], cursor)
    ELSE [call |-> [call EXCEPT !.lastError = error, !.st = "thrown", !.thrown = error],
          cursor |-> cursor]

\* a wrapper that takes the next key after a success too
geminiApiCallSettle_RotateOnSuccess(call, cursor, outcome) ==
    IF outcome.ok
    THEN [call |-> [call EXCEPT !.st = "returned", !.result = outcome.value],
          cursor |-> advanceCursor(cursor)]
    ELSE catchError(call, cursor, outcome.error)

\* lines 54-66: apiLogic has settled
geminiApiCallSettle(call, cursor, outcome) ==
    IF outcome.ok
    THEN [call |-> [call EXCEPT !.st = "returned", !.result = outcome.value],
          cursor |-> cursor]
    ELSE catchError(call, cursor, outcome.error)

\* what an attempt came to, as the properties name it
AnswerKind(outcome) ==
    IF outcome.ok THEN "ok"
    ELSE IF RateLimitTable[outcome.error] THEN "rate-limit" ELSE "other"

\* the call after an attempt, with what the attempt came to written down
Answered(call, outcome) ==
    [call EXCEPT !.answers = Append(@, AnswerKind(outcome)),
                 !.raised = outcome.error]

(***************************************************************************)
(* The state after the modules are loaded and the App is mounted: the      *)
(* dashboard, with one saved project whose story has been analysed.        *)
(***************************************************************************)
NoProject == [id |-> "none", storyPages |-> <<>>, stage |-> "none",
              generatedFromChapterTitle |-> "undefined"]

SavedProject == [id |-> "p1", storyPages |-> <<>>, stage |-> "chapter-selection",
                 generatedFromChapterTitle |-> "undefined"]

\* apiKeyManager.ts lines 10-19; line 15 throws when no key is left, and
\* then nothing of the program runs
InitKeys ==
    /\ \E env \in EnvKeys, n \in 0..MaxUserKeys :
          /\ apiKeys = loadApiKeys(env, userApiKeys(n))
          /\ Len(apiKeys) # 0
    /\ currentKeyIndex = 0
    /\ keyLog = <<>>
    /\ calls = [c \in 1..MaxCallers |-> IdleCall]

\* an invocation of handleRegeneratePanel or handleEditPanel that has not
\* been made: kind and pc say which handler it is and where it stands,
\* storyPages is currentProject.storyPages as the handler's closure holds it,
\* request the arguments of its image call, alert what it told the user
IdleOp ==
    [kind |-> "none", pc |-> "idle", pageIndex |-> 0, storyPages |-> <<>>,
     pagesInProgress |-> <<>>, request |-> <<>>, call |-> IdleCall, alert |-> ""]

\* useState<number | null>(null): no panel
NoPanel == -1

\* the App once mounted, its saved projects read from the database and no
\* run started (part_000 lines 119-130)
InitApp ==
    /\ apiKeyStatuses = <<>>
    /\ isApiStatusModalOpen = FALSE
    /\ keyTest = "idle"
    /\ isLoading = FALSE
    /\ isCancellable = FALSE
    /\ view = "dashboard"
    /\ currentProject = NoProject
    /\ projects = <<SavedProject>>
    /\ generationCancelledRef = FALSE
    /\ runPc = "none"
    /\ loads = 0
    /\ keyTests = 0
    /\ runs = 0
    /\ runChapter = ""
    /\ pagesWithImages = <<>>
    /\ finalPages = <<>>
    /\ panelIndex = 0
    /\ scriptCall = IdleCall
    /\ imageCall = <<>>
    /\ imageRequest = <<>>
    /\ letteringOrder = <<>>
    /\ letteringCall = <<>>
    /\ letteringPromises = <<>>
    /\ panelOps = [o \in 1..MaxOps |-> IdleOp]
    /\ letteringEdits = 0
    /\ reorders = <<>>
    /\ editingPanelIndex = NoPanel

Init == InitKeys /\ InitApp

(***************************************************************************)
(* The key pool used directly, and geminiApiCall used by the service       *)
(* functions other than those of the pipeline (analyzeFullStory,           *)
(* generateImageForPrompt, generateCharacterSheetFromImage): calls[c] is   *)
(* the c-th such invocation of a behaviour.                                *)
(***************************************************************************)
\* a direct call of getNextKey; keyLog keeps what it returned
GetNextKey(limit) ==
    /\ Len(keyLog) < limit
    /\ LET next == getNextKey(currentKeyIndex)
       IN  /\ keyLog' = Append(keyLog, [key |-> next.key, index |-> next.index])
           /\ currentKeyIndex' = next.cursor
    /\ UNCHANGED <<opVars, apiKeys, calls, uiVars, runVars>>

\* what apiLogic can come to in a service call: a value, a backend error, or
\* the GeminiApiError apiLogic raises itself on an unusable response
ServiceOutcomes ==
    {Returns("result")} \cup {Throws(e) : e \in BackendErrors \cup {ErrNoImage}}

\* the c-th invocation of geminiApiCall: it runs up to its first await
GeminiApiCallStart(c) ==
    /\ calls[c].st = "idle"
    /\ \A d \in 1..(c - 1) : calls[d].st # "idle"
    /\ LET r == geminiApiCallStart(currentKeyIndex)
       IN  /\ calls' = [calls EXCEPT ![c] = r.call]
           /\ currentKeyIndex' = r.cursor
    /\ UNCHANGED <<opVars, apiKeys, keyLog, uiVars, runVars>>

\* the attempt in flight of invocation c settles
GeminiApiCallSettle(c, outcome) ==
    /\ calls[c].st = "awaiting"
    /\ LET r == geminiApiCallSettle(calls[c], currentKeyIndex, outcome)
       IN  /\ calls' = [calls EXCEPT ![c] = Answered(r.call, outcome)]
           /\ currentKeyIndex' = r.cursor
    /\ UNCHANGED <<opVars, apiKeys, keyLog, uiVars, runVars>>

\* testApiKeys lines 755-776: the status entry of the key at `index`, whose
\* test request came to `answer`
KeyMessageLimit == 100

keyStatus(index, answer) ==
    LET keyIdentifier == "API Key " \o ToString(index + 1)
        message == answer.error.message
    IN  IF answer.ok
        THEN [keyIdentifier |-> keyIdentifier, status |-> "ok", message |-> "Active"]
        ELSE [keyIdentifier |-> keyIdentifier, status |-> "error",
              message |-> IF isRateLimitError(answer.error)
                            THEN "Quota limit reached."
                          ELSE IF includes(Chars(message), Chars("API key not valid"))
                            THEN "Invalid API key."
                          ELSE IF Len(Chars(message)) <= KeyMessageLimit
                            THEN message
                          ELSE "(the first 100 characters)"]

\* testApiKeys: one request per key of getApiKeys, none through getNextKey
testApiKeys(answers) ==
    LET keys == getApiKeys
    IN  [k \in 1..Len(keys) |-> keyStatus(k - 1, answers[k])]

\* handleTestApiKeys up to its await (the button is on the dashboard); one
\* key test runs at a time
HandleTestApiKeys ==
    /\ view = "dashboard"
    /\ keyTest = "idle"
    /\ keyTests < MaxKeyTests
    /\ keyTests' = keyTests + 1
    /\ keyTest' = "running"
    /\ isLoading' = TRUE
    /\ UNCHANGED <<opVars, keyVars, runVars, loads, apiKeyStatuses, isApiStatusModalOpen,
                   isCancellable, view, currentProject, projects>>

\* every test request has settled (Promise.all): the rest of handleTestApiKeys
TestApiKeysSettle(answers) ==
    /\ keyTest = "running"
    /\ apiKeyStatuses' = testApiKeys(answers)
    /\ isApiStatusModalOpen' = TRUE
    /\ isLoading' = FALSE
    /\ keyTest' = "idle"
    /\ UNCHANGED <<opVars, keyVars, runVars, loads, keyTests, isCancellable, view,
                   currentProject, projects>>

\* ApiStatusModal onClose
CloseApiStatusModal ==
    /\ isApiStatusModalOpen
    /\ isApiStatusModalOpen' = FALSE
    /\ UNCHANGED <<opVars, keyVars, runVars, loads, keyTests, apiKeyStatuses, keyTest, isLoading,
                   isCancellable, view, currentProject, projects>>

\* what a key's test request can come to
KeyTestAnswers ==
    {Returns("hello")} \cup
    {Throws(e) : e \in {ErrResourceExhausted, ErrInvalidKey, ErrInternal}}

\* the same, for the specifications whose subject is not the key test
FewKeyTestAnswers == {Returns("hello"), Throws(ErrResourceExhausted)}

\* the key pool: getNextKey called again and again, next to key tests
NextKeyPool ==
    \/ GetNextKey(MaxLog)
    \/ HandleTestApiKeys
    \/ \E answers \in [1..Len(apiKeys) -> KeyTestAnswers] : TestApiKeysSettle(answers)
    \/ CloseApiStatusModal

SpecKeyPool == Init /\ [][NextKeyPool]_vars

NoCallInFlight == \A c \in 1..MaxCallers : calls[c].st # "awaiting"

\* geminiApiCall invoked one call after another, never two at a time
NextSeq ==
    \E c \in 1..MaxCallers :
        \/ NoCallInFlight /\ GeminiApiCallStart(c)
        \/ \E outcome \in ServiceOutcomes : GeminiApiCallSettle(c, outcome)

SpecSeq == Init /\ [][NextSeq]_vars

\* the outcomes drawn where calls overlap: a value, a rate-limit error, an
\* error that is none, and an error apiLogic raises itself
FewServiceOutcomes ==
    {Returns("result"), Throws(ErrResourceExhausted), Throws(ErrInvalidKey),
     Throws(ErrNoImage)}

\* geminiApiCall invocations whose awaits overlap
NextCalls ==
    \E c \in 1..MaxCallers :
        \/ GeminiApiCallStart(c)
        \/ \E outcome \in FewServiceOutcomes : GeminiApiCallSettle(c, outcome)

SpecCalls == Init /\ [][NextCalls]_vars

(***************************************************************************)
(* Panels.  A StoryPage (types.ts, lines 44-60) is a record of all its     *)
(* fields; an optional field that is not set holds the value written here  *)
(* for undefined (the flags: FALSE, failureReason: "").  The fonts and     *)
(* colours of a lettering element are left out.                            *)
(***************************************************************************)
UndefinedImage == [mime |-> "undefined", data |-> ""]

NullImage == [mime |-> "null", data |-> ""]

\* `data:image/png;base64,${part.inlineData.data}`
PngImage(data) == [mime |-> "image/png", data |-> data]

\* createPlaceholderSvgDataUrl(text), lines 25-38
createPlaceholderSvgDataUrl(text) == [mime |-> "image/svg+xml", data |-> text]

\* whether a value of an image field counts as true in a condition
hasImage(image) == image.mime \notin {"undefined", "null"}

NullLettering == [null |-> TRUE, list |-> <<>>]

Lettering(list) == [null |-> FALSE, list |-> list]

\* panel n as the script backend describes it; a bare panel has neither
\* narration nor dialogue
ScriptPage(n, bare) ==
    [page |-> n,
     description |-> "panel " \o ToString(n),
     narration |-> IF bare THEN "" ELSE "narration " \o ToString(n),
     dialogue |-> <<>>,
     layout |-> "standard",
     sfx |-> "none"]

\* the scripts the backend answers with: 0..MaxPanels panels, in page order
\* or in reverse, or with a bare last panel
Scripts ==
    {[k \in 1..n |-> ScriptPage(k, FALSE)] : n \in 0..MaxPanels} \cup
    {[k \in 1..n |-> ScriptPage(n + 1 - k, FALSE)] : n \in 2..MaxPanels} \cup
    {[k \in 1..n |-> ScriptPage(k, k = n)] : n \in 1..MaxPanels}

\* pages.sort((a, b) => a.page - b.page): a stable sort, by insertion
RECURSIVE insertByPage(_, _)
insertByPage(sorted, p) ==
    IF sorted = <<>> THEN <<p>>
    ELSE IF p.page < Head(sorted).page THEN <<p>> \o sorted
    ELSE <<Head(sorted)>> \o insertByPage(Tail(sorted), p)

\* the parsed pages returned in the order the backend gave them
sortByPage_AsReturned(pages) == pages

RECURSIVE sortByPage(_)
sortByPage(pages) ==
    IF pages = <<>> THEN <<>>
    ELSE insertByPage(sortByPage(SubSeq(pages, 1, Len(pages) - 1)), pages[Len(pages)])

(***************************************************************************)
(* What the backend answers, and what each apiLogic makes of it.           *)
(***************************************************************************)
\* a response carries text (the image's base64 data) or a parsed list
Response(kind, text, list) ==
    [kind |-> kind, text |-> text, list |-> list, error |-> NoError]

ErrorResponse(e) == [kind |-> "error", text |-> "", list |-> <<>>, error |-> e]

\* the errors the backend raises in the pipeline's calls: one that is
\* rate-limit, one that is not
PipelineErrors == {ErrResourceExhausted, ErrInvalidKey}

ScriptResponses ==
    {Response("json", "", s) : s \in Scripts} \cup
    {Response("empty", "", <<>>), Response("garbage", "", <<>>)} \cup
    {ErrorResponse(e) : e \in PipelineErrors}

\* generateStory, lines 363-380
generateStoryApiLogic(response) ==
    IF response.kind = "error" THEN Throws(response.error)
    ELSE IF response.kind = "empty" THEN Throws(ErrEmptyScript)
    ELSE IF response.kind = "garbage" THEN Throws(ErrParseScript)
    ELSE Returns(sortByPage(response.list))

ImageResponses(description) ==
    {Response("image", description, <<>>), Response("blocked", "", <<>>)} \cup
    {ErrorResponse(e) : e \in PipelineErrors}

\* generatePanelImage, lines 522-533
generatePanelImageApiLogic(response) ==
    IF response.kind = "error" THEN Throws(response.error)
    ELSE IF response.kind = "image" THEN Returns(PngImage(response.text))
    ELSE Throws(ErrNoImage)

\* uuidv4(): an id no other element has, written as the image it belongs to
\* and the element's place
uuidv4(image, n) == <<image.data, n>>

\* the elements the lettering backend places for a panel
PlacedElements(narration, dialogue) ==
    (IF narration # ""
     THEN <<[type |-> "narration", text |-> narration,
             x |-> 10, y |-> 70, width |-> 80, height |-> 20]>>
     ELSE <<>>) \o
    [k \in 1..Len(dialogue) |->
        [type |-> "dialogue", text |-> dialogue[k].line,
         x |-> 10, y |-> 10, width |-> 40, height |-> 20]]

\* the answers of the lettering backend, whose calls overlap: the placed
\* elements, text that does not parse, and the rate-limit error
LetteringResponses(narration, dialogue) ==
    {Response("json", "", PlacedElements(narration, dialogue)),
     Response("garbage", "", <<>>), ErrorResponse(ErrResourceExhausted)}

\* analyzePanelForLettering, lines 646-647: the default placement
fallbackLettering(narration, dialogue) ==
    (IF narration # ""
     THEN <<[type |-> "narration", text |-> narration,
             x |-> 5, y |-> 80, width |-> 90, height |-> 15]>>
     ELSE <<>>) \o
    [k \in 1..Len(dialogue) |->
        [type |-> "dialogue", text |-> dialogue[k].line,
         x |-> 10, y |-> 10 + ((k - 1) * 15), width |-> 80, height |-> 12]]

\* elements.map(el => ({ ...el, id: uuidv4() }))
withIds(elements, image) ==
    [k \in 1..Len(elements) |->
        [id |-> uuidv4(image, k), type |-> elements[k].type, text |-> elements[k].text,
         x |-> elements[k].x, y |-> elements[k].y,
         width |-> elements[k].width, height |-> elements[k].height]]

\* analyzePanelForLettering, lines 642-665
analyzePanelForLetteringApiLogic(response, image, narration, dialogue) ==
    IF response.kind = "error" THEN Throws(response.error)
    ELSE IF response.kind = "empty"
        THEN Returns(withIds(fallbackLettering(narration, dialogue), image))
    ELSE IF response.kind = "garbage" THEN Throws(ErrParseLettering)
    ELSE Returns(withIds(response.list, image))

(***************************************************************************)
(* The service functions around geminiApiCall: what the caller's await     *)
(* comes to once the call has ended.                                       *)
(***************************************************************************)
isGeminiApiError(e) == e.name = "GeminiApiError"

\* the catch blocks that pass a GeminiApiError on and wrap anything else
\* (generateStory lines 382-389, analyzePanelForLettering lines 667-674)
rethrowAsGeminiApiError(call, friendly) ==
    IF call.st = "returned" THEN Returns(call.result)
    ELSE IF isGeminiApiError(call.thrown) THEN Throws(call.thrown)
    ELSE Throws(GeminiApiError(call.thrown.message, friendly))

generateStory(call) ==
    rethrowAsGeminiApiError(call,
        "An unexpected error occurred while generating the story script.")

analyzePanelForLettering(call) ==
    rethrowAsGeminiApiError(call,
        "An unexpected error occurred during text placement analysis.")

\* generatePanelImage, lines 404 and 535-546: the all-keys-exhausted error
\* becomes a placeholder image
generatePanelImage(call) ==
    IF call.st = "returned" THEN Returns(call.result)
    ELSE IF /\ isGeminiApiError(call.thrown)
            /\ includes(Chars(call.thrown.message), Chars("rate limits"))
        THEN Returns(createPlaceholderSvgDataUrl("API Limit Reached"))
    ELSE IF isGeminiApiError(call.thrown) THEN Throws(call.thrown)
    ELSE Throws(GeminiApiError(call.thrown.message,
                    "An unexpected error occurred while generating the panel image."))

(***************************************************************************)
(* The App component: the project state and handleGenerateStory.           *)
(***************************************************************************)
\* the titles of the chapters of the project's story
Chapters == {"Chapter 1", "Chapter 2"}

\* updateCurrentProject, lines 157-173: the functional update of
\* currentProject and, inside it, of the saved projects (updatedAt is left out)
updateCurrentProject(prevProject, prevProjects, updates) ==
    IF prevProject = NoProject
    THEN [current |-> NoProject, saved |-> prevProjects]
    ELSE LET updatedProject ==
                 [f \in DOMAIN prevProject |->
                     IF f \in DOMAIN updates THEN updates[f] ELSE prevProject[f]]
         IN  [current |-> updatedProject,
              saved |-> SelectSeq(prevProjects, LAMBDA p : p.id # updatedProject.id)
                        \o <<updatedProject>>]

\* line 312-317: generatedPages.map(p => ({...p, isGenerating: true, ...}))
newPage(p) ==
    [page |-> p.page, description |-> p.description, narration |-> p.narration,
     dialogue |-> p.dialogue, layout |-> p.layout, sfx |-> p.sfx,
     image |-> UndefinedImage, isGenerating |-> TRUE, isLettering |-> FALSE,
     lettering |-> NullLettering, generationFailed |-> FALSE, failureReason |-> ""]

\* the cancellation written over every panel, the finished ones too
cancelPanels_All(pages, i) ==
    [k \in 1..Len(pages) |->
        [pages[k] EXCEPT !.isGenerating = FALSE, !.generationFailed = TRUE,
                         !.failureReason = "Generation was cancelled."]]

\* line 332: the panels from index i on are marked as cancelled (i is 0-based)
cancelPanels(pages, i) ==
    [k \in 1..Len(pages) |->
        IF k - 1 >= i
        THEN [pages[k] EXCEPT !.isGenerating = FALSE, !.generationFailed = TRUE,
                              !.failureReason = "Generation was cancelled."]
        ELSE pages[k]]

\* line 352: the image of panel i has arrived
imageStored(pages, i, panelImage) ==
    [k \in 1..Len(pages) |->
        IF k - 1 = i
        THEN [pages[k] EXCEPT !.image = panelImage, !.isGenerating = FALSE,
                              !.isLettering = TRUE]
        ELSE pages[k]]

\* the failure recorded with the panel's spinners left on
imageFailed_StillGenerating(pages, i, panelError) ==
    [k \in 1..Len(pages) |->
        IF k - 1 = i
        THEN [pages[k] EXCEPT !.generationFailed = TRUE,
                              !.failureReason = panelError.userFriendlyMessage,
                              !.image = NullImage]
        ELSE pages[k]]

\* lines 356-357: the image call of panel i has thrown
imageFailed(pages, i, panelError) ==
    LET reason == IF isGeminiApiError(panelError)
                  THEN panelError.userFriendlyMessage
                  ELSE "An unknown error occurred."
    IN  [k \in 1..Len(pages) |->
            IF k - 1 = i
            THEN [pages[k] EXCEPT !.isGenerating = FALSE, !.isLettering = FALSE,
                                  !.generationFailed = TRUE, !.failureReason = reason,
                                  !.image = NullImage]
            ELSE pages[k]]

\* a reference that is always the first panel's image
previousPanelImage_First(pages, i) == IF i > 0 THEN pages[1].image ELSE UndefinedImage

\* line 338: the continuity reference handed to the image call of panel i
previousPanelImage(pages, i) == IF i > 0 THEN pages[i].image ELSE UndefinedImage

\* generatePanelImage, geminiService.ts lines 483-488: the reference goes
\* into the request only if there is one
continuityParts(reference) == IF hasImage(reference) THEN <<reference>> ELSE <<>>

\* the lettering stage without its filter
needsLettering_Always(page) == TRUE

\* line 370: the panels the lettering stage analyses
needsLettering(page) == hasImage(page.image) /\ ~page.generationFailed

\* analyzePanelForLettering, lines 554-556: nothing to place, no backend call
nothingToPlace(page) == page.narration = "" /\ Len(page.dialogue) = 0

\* an entry of letteringPromises, and what it resolves to: null, or
\* { index, lettering, error }
NoPromise == [st |-> "none", null |-> TRUE, index |-> 0,
              lettering |-> NullLettering, error |-> NoError]

ResolvedNull == [NoPromise EXCEPT !.st = "resolved"]

Pending(i) == [NoPromise EXCEPT !.st = "pending", !.index = i]

\* a result that carries the first panel's index whatever its panel
letteringThen_FirstIndex(i, letteringData) ==
    [st |-> "resolved", null |-> FALSE, index |-> 0,
     lettering |-> Lettering(letteringData), error |-> NoError]

\* line 372: .then(letteringData => ({ index: i, lettering: letteringData, error: null }))
letteringThen(i, letteringData) ==
    [st |-> "resolved", null |-> FALSE, index |-> i,
     lettering |-> Lettering(letteringData), error |-> NoError]

\* lines 373-376: .catch(error => ({ index: i, lettering: null, error }))
letteringCatch(i, error) ==
    [st |-> "resolved", null |-> FALSE, index |-> i,
     lettering |-> NullLettering, error |-> error]

\* lines 383-392: the results merged into a copy of the panel list, each at
\* the index it carries
RECURSIVE mergeLettering(_, _, _)
mergeLettering(pages, results, n) ==
    IF n > Len(results) THEN pages
    ELSE LET result == results[n]
         IN  mergeLettering(
                 IF result.null THEN pages
                 ELSE [pages EXCEPT ![result.index + 1] =
                          [@ EXCEPT !.lettering = result.lettering,
                                    !.isLettering = FALSE]],
                 results, n + 1)

(***************************************************************************)
(* handleGenerateStory, lines 302-405.  RunState gathers what a stretch of *)
(* the handler reads and writes; each operator below is a piece of the     *)
(* handler, from RunState to RunState, and Becomes makes the result the    *)
(* next state.                                                             *)
(***************************************************************************)
RunState ==
    [cursor |-> currentKeyIndex, flag |-> generationCancelledRef, pc |-> runPc,
     runs |-> runs,
     chapter |-> runChapter, pages |-> pagesWithImages, final |-> finalPages,
     i |-> panelIndex, scriptCall |-> scriptCall, imageCall |-> imageCall,
     imageRequest |-> imageRequest, letteringCall |-> letteringCall,
     promises |-> letteringPromises, order |-> letteringOrder, current |-> currentProject,
     saved |-> projects, isLoading |-> isLoading, isCancellable |-> isCancellable]

Becomes(R) ==
    /\ currentKeyIndex' = R.cursor
    /\ generationCancelledRef' = R.flag
    /\ runPc' = R.pc
    /\ runs' = R.runs
    /\ runChapter' = R.chapter
    /\ pagesWithImages' = R.pages
    /\ finalPages' = R.final
    /\ panelIndex' = R.i
    /\ scriptCall' = R.scriptCall
    /\ imageCall' = R.imageCall
    /\ imageRequest' = R.imageRequest
    /\ letteringCall' = R.letteringCall
    /\ letteringPromises' = R.promises
    /\ letteringOrder' = R.order
    /\ currentProject' = R.current
    /\ projects' = R.saved
    /\ isLoading' = R.isLoading
    /\ isCancellable' = R.isCancellable
    /\ UNCHANGED <<opVars, apiKeys, keyLog, calls, loads, keyTests, apiKeyStatuses,
                   isApiStatusModalOpen, keyTest, view>>

\* updateCurrentProject(updates) called by the handler
publish(R, updates) ==
    LET u == updateCurrentProject(R.current, R.saved, updates)
    IN  [R EXCEPT !.current = u.current, !.saved = u.saved]

\* a finally block that leaves the cancellation flag as it is
finallyBlock_FlagKept(R, outcome) == [R EXCEPT !.isCancellable = FALSE, !.pc = outcome]

\* lines 401-404: the finally block; outcome names how the run ended
finallyBlock(R, outcome) ==
    [R EXCEPT !.isCancellable = FALSE, !.flag = FALSE, !.pc = outcome]

\* lines 381-394: Promise.all has resolved
mergeAndFinish(R) ==
    LET merged == mergeLettering(R.pages, R.promises, 1)
    IN  finallyBlock(publish([R EXCEPT !.final = merged], [storyPages |-> merged]),
                     "done")

\* lines 369-379: the entries of letteringPromises from panel k on (k is
\* 1-based), each call running up to its first await
RECURSIVE dispatchLettering(_, _)
dispatchLettering(R, k) ==
    IF k > Len(R.pages) THEN R
    ELSE LET page == R.pages[k]
             started == geminiApiCallStart(R.cursor)
         IN  IF ~needsLettering(page)
             THEN dispatchLettering([R EXCEPT !.promises[k] = ResolvedNull], k + 1)
             ELSE IF nothingToPlace(page)
             THEN dispatchLettering(
                      [R EXCEPT !.promises[k] = letteringThen(k - 1, <<>>)], k + 1)
             ELSE dispatchLettering(
                      [R EXCEPT !.promises[k] = Pending(k - 1),
                                !.letteringCall[k] = started.call,
                                !.cursor = started.cursor], k + 1)

allResolved(promises) == \A k \in 1..Len(promises) : promises[k].st = "resolved"

\* lines 368-381: the parallel lettering stage up to its await
letteringStage(R) ==
    LET dispatched ==
            dispatchLettering(
                [R EXCEPT !.promises = [k \in 1..Len(R.pages) |-> NoPromise],
                          !.letteringCall = [k \in 1..Len(R.pages) |-> IdleCall]], 1)
    IN  IF allResolved(dispatched.promises)
        THEN mergeAndFinish(dispatched)
        ELSE [dispatched EXCEPT !.pc = "lettering"]

\* lines 362-368: after the image loop
afterImageLoop(R) ==
    IF R.flag
    THEN finallyBlock([R EXCEPT !.isCancellable = FALSE, !.flag = FALSE], "cancelled")
    ELSE letteringStage(R)

\* lines 329-350: the top of iteration R.i of the image loop, up to the await
imageLoop(R) ==
    IF R.i >= Len(R.pages) THEN afterImageLoop(R)
    ELSE IF R.flag
    THEN LET cancelled == cancelPanels(R.pages, R.i)
         IN  afterImageLoop(publish([R EXCEPT !.pages = cancelled],
                                    [storyPages |-> cancelled]))
    ELSE LET started == geminiApiCallStart(R.cursor)
         IN  [R EXCEPT !.imageCall[R.i + 1] = started.call,
                       !.imageRequest[R.i + 1] =
                           [description |-> R.pages[R.i + 1].description,
                            previousPanelImage |-> previousPanelImage(R.pages, R.i)],
                       !.cursor = started.cursor,
                       !.pc = "images"]

\* the loop moving on with the outcome not written to the panel list
imageSettled_NotWritten(R, result) == imageLoop([R EXCEPT !.i = R.i + 1])

\* the outcome written to the handler's list and not published
imageSettled_NotPublished(R, result) ==
    LET pages == IF result.ok
                 THEN imageStored(R.pages, R.i, result.value)
                 ELSE imageFailed(R.pages, R.i, result.error)
    IN  imageLoop([R EXCEPT !.pages = pages, !.i = R.i + 1])

\* lines 352-359 and the loop's i++: generatePanelImage has settled
imageSettled(R, result) ==
    LET pages == IF result.ok
                 THEN imageStored(R.pages, R.i, result.value)
                 ELSE imageFailed(R.pages, R.i, result.error)
    IN  imageLoop([publish([R EXCEPT !.pages = pages], [storyPages |-> pages])
                      EXCEPT !.i = R.i + 1])

NoRequest == [description |-> "", previousPanelImage |-> UndefinedImage]

\* lines 312-329: generateStory has returned
scriptReady(R, generatedPages) ==
    LET pages == [k \in 1..Len(generatedPages) |-> newPage(generatedPages[k])]
        shown == publish([R EXCEPT !.pages = pages],
                         [storyPages |-> pages, stage |-> "story-panels",
                          generatedFromChapterTitle |-> R.chapter])
    IN  imageLoop([shown EXCEPT !.isLoading = FALSE, !.i = 0,
                                !.imageCall = [k \in 1..Len(pages) |-> IdleCall],
                                !.imageRequest = [k \in 1..Len(pages) |-> NoRequest]])

\* the handler showing an empty panel page when generateStory has thrown
scriptFailed_Publishes(R) ==
    finallyBlock(publish([R EXCEPT !.isLoading = FALSE],
                         [storyPages |-> <<>>, stage |-> "story-panels",
                          generatedFromChapterTitle |-> R.chapter]), "failed")

\* lines 396-404: generateStory has thrown
scriptFailed(R) == finallyBlock([R EXCEPT !.isLoading = FALSE], "failed")

\* lines 303-311: the handler up to its first await
startRun(R, chapter) ==
    LET started == geminiApiCallStart(R.cursor)
    IN  [R EXCEPT !.flag = FALSE, !.isLoading = TRUE, !.isCancellable = TRUE,
                  !.chapter = chapter, !.pc = "script", !.runs = R.runs + 1,
                  !.scriptCall = started.call, !.cursor = started.cursor,
                  !.pages = <<>>, !.final = <<>>, !.i = 0, !.imageCall = <<>>,
                  !.imageRequest = <<>>, !.letteringCall = <<>>, !.promises = <<>>,
                  !.order = <<>>]

\* a call that has ended: its locals are gone, what it came to is kept
ended(call) == [IdleCall EXCEPT !.st = call.st, !.thrown = call.thrown]

RunActive == runPc \in {"script", "images", "lettering"}

(***************************************************************************)
(* The steps of the App.                                                   *)
(***************************************************************************)
\* handleLoadProject, lines 196-202
HandleLoadProject ==
    /\ view = "dashboard"
    /\ loads < MaxLoads
    /\ loads' = loads + 1
    /\ currentProject' = projects[1]
    /\ view' = "project"
    /\ UNCHANGED <<opVars, keyVars, runVars, keyTests, apiKeyStatuses, isApiStatusModalOpen,
                   keyTest, isLoading, isCancellable, projects>>

\* handleBackToDashboard, lines 579-582
HandleBackToDashboard ==
    /\ view = "project"
    /\ currentProject' = NoProject
    /\ view' = "dashboard"
    /\ UNCHANGED <<opVars, keyVars, runVars, loads, keyTests, apiKeyStatuses,
                   isApiStatusModalOpen, keyTest,
                   isLoading, isCancellable, projects>>

\* handleSelectChapter, lines 286-295, for a chapter that is not the one
\* already generated, and handleGenerateStory up to its first await; one run
\* is active at a time
HandleGenerateStory(chapter) ==
    /\ view = "project"
    /\ currentProject.stage = "chapter-selection"
    /\ ~(Len(currentProject.storyPages) > 0
            /\ currentProject.generatedFromChapterTitle = chapter)
    /\ ~RunActive
    /\ runs < MaxRuns
    /\ Becomes(startRun(RunState, chapter))

\* handleCancelGeneration, lines 297-300: the button is on the Loader, which
\* is rendered while isLoading, with the button while isCancellable (line 684)
HandleCancelGeneration ==
    /\ isLoading
    /\ isCancellable
    /\ generationCancelledRef' = TRUE
    /\ UNCHANGED <<opVars, keyVars, uiVars, runs, runChapter, runPc, pagesWithImages, finalPages,
                   panelIndex, scriptCall, imageCall, imageRequest, letteringCall,
                   letteringPromises, letteringOrder>>

\* the script backend answers the attempt in flight of generateStory
ScriptSettle(response) ==
    /\ runPc = "script"
    /\ LET outcome == generateStoryApiLogic(response)
           r == geminiApiCallSettle(scriptCall, currentKeyIndex, outcome)
           R == [RunState EXCEPT !.scriptCall = Answered(r.call, outcome),
                                 !.cursor = r.cursor]
           E == [R EXCEPT !.scriptCall = ended(r.call)]
           result == generateStory(r.call)
       IN  Becomes(IF r.call.st = "awaiting" THEN R
                   ELSE IF result.ok THEN scriptReady(E, result.value)
                   ELSE scriptFailed(E))

\* the image backend answers the attempt in flight of generatePanelImage
ImageSettle(response) ==
    /\ runPc = "images"
    /\ LET outcome == generatePanelImageApiLogic(response)
           r == geminiApiCallSettle(imageCall[panelIndex + 1], currentKeyIndex, outcome)
           R == [RunState EXCEPT !.imageCall[panelIndex + 1] = Answered(r.call, outcome),
                                 !.cursor = r.cursor]
           E == [R EXCEPT !.imageCall[panelIndex + 1] = ended(r.call)]
       IN  Becomes(IF r.call.st = "awaiting" THEN R
                   ELSE imageSettled(E, generatePanelImage(r.call)))

\* the lettering backend answers the attempt in flight for the panel at k
LetteringSettle(k, response) ==
    /\ runPc = "lettering"
    /\ letteringPromises[k].st = "pending"
    /\ LET page == pagesWithImages[k]
           outcome == analyzePanelForLetteringApiLogic(
                          response, page.image, page.narration, page.dialogue)
           r == geminiApiCallSettle(letteringCall[k], currentKeyIndex, outcome)
           result == analyzePanelForLettering(r.call)
           R == [RunState EXCEPT !.letteringCall[k] = Answered(r.call, outcome),
                                 !.cursor = r.cursor]
           settled == [R EXCEPT !.letteringCall[k] = ended(r.call),
                                !.order = Append(@, k),
                                !.promises[k] =
                             IF result.ok THEN letteringThen(k - 1, result.value)
                             ELSE letteringCatch(k - 1, result.error)]
       IN  Becomes(IF r.call.st = "awaiting" THEN R
                   ELSE IF allResolved(settled.promises) THEN mergeAndFinish(settled)
                   ELSE settled)

Next ==
    \/ HandleLoadProject
    \/ HandleBackToDashboard
    \/ \E chapter \in Chapters : HandleGenerateStory(chapter)
    \/ HandleCancelGeneration
    \/ \E response \in ScriptResponses : ScriptSettle(response)
    \/ /\ runPc = "images"
       /\ \E response \in ImageResponses(pagesWithImages[panelIndex + 1].description) :
              ImageSettle(response)
    \/ /\ runPc = "lettering"
       /\ \E k \in 1..Len(pagesWithImages) :
              \E response \in LetteringResponses(pagesWithImages[k].narration,
                                                 pagesWithImages[k].dialogue) :
                  LetteringSettle(k, response)
    \/ HandleTestApiKeys
    \/ \E answer \in FewKeyTestAnswers :
           TestApiKeysSettle([k \in 1..Len(apiKeys) |-> answer])

Spec == Init /\ [][Next]_vars

(***************************************************************************)
(* The single-panel operations of the App: handleRegeneratePanel (lines    *)
(* 407-452), handleEditPanel (454-486) and the lettering element handlers  *)
(* (488-561), on a project whose panels a run of handleGenerateStory has   *)
(* left behind.  panelOps[o] is the o-th invocation of one of the two      *)
(* asynchronous handlers; each holds the currentProject of the render it   *)
(* was created in, so its storyPages are those of the moment of the click. *)
(***************************************************************************)
\* editPanelImage, lines 720-729
editPanelImageApiLogic(response) ==
    IF response.kind = "error" THEN Throws(response.error)
    ELSE IF response.kind = "image" THEN Returns(PngImage(response.text))
    ELSE Throws(ErrNoEditedImage)

\* editPanelImage, lines 681 and 732-743: the all-keys-exhausted error
\* becomes a placeholder image
editPanelImage(call) ==
    IF call.st = "returned" THEN Returns(call.result)
    ELSE IF /\ isGeminiApiError(call.thrown)
            /\ includes(Chars(call.thrown.message), Chars("rate limits"))
        THEN Returns(createPlaceholderSvgDataUrl("API Limit: Edit Failed"))
    ELSE IF isGeminiApiError(call.thrown) THEN Throws(call.thrown)
    ELSE Throws(GeminiApiError(call.thrown.message,
                    "An unexpected error occurred while editing the panel."))

\* what the image backend answers to a regeneration: another picture of the
\* panel, a blocked response, or an error
RegenerateResponses(description) ==
    {Response("image", description \o ", again", <<>>), Response("blocked", "", <<>>)} \cup
    {ErrorResponse(e) : e \in PipelineErrors}

\* what the image backend answers to an edit of the image `image`
EditResponses(image) ==
    {Response("image", image.data \o ", edited", <<>>), Response("blocked", "", <<>>)} \cup
    {ErrorResponse(e) : e \in PipelineErrors}

\* a panel as a finished run leaves it when both its calls succeeded
CompletePanel(n) ==
    LET image == PngImage("panel " \o ToString(n))
        stored == imageStored(<<newPage(ScriptPage(n, FALSE))>>, 0, image)
        placed == withIds(PlacedElements(stored[1].narration, stored[1].dialogue), image)
    IN  mergeLettering(stored, <<letteringThen(0, placed)>>, 1)[1]

\* a panel as a run leaves it when its image call has thrown
FailedPanel(n) == imageFailed(<<newPage(ScriptPage(n, FALSE))>>, 0, ErrNoImage)[1]

\* the panel lists of the project the operations work on
GeneratedPanelLists ==
    {<<a, b>> : a \in {CompletePanel(1), FailedPanel(1)},
                b \in {CompletePanel(2), FailedPanel(2)}}

\* StoryDisplay.tsx lines 398-408 and 436-444: where a panel shows a
\* Regenerate button
regenerateOffered(page) ==
    \/ page.generationFailed
    \/ /\ ~page.isGenerating
       /\ ~page.isLettering
       /\ hasImage(page.image)

\* StoryDisplay.tsx lines 436 and 445-451: where a panel shows its Edit button
editOffered(page) ==
    /\ ~page.isGenerating
    /\ ~page.isLettering
    /\ hasImage(page.image)
    /\ ~page.generationFailed

\* StoryDisplay.tsx lines 398-426: where a panel shows its LetteringLayer
letteringLayerShown(page) ==
    /\ ~page.generationFailed
    /\ ~page.isGenerating
    /\ hasImage(page.image)
    /\ ~page.lettering.null
    /\ Len(page.lettering.list) > 0

\* what a step of an asynchronous handler reads and writes
OpState(o) ==
    [op |-> panelOps[o], cursor |-> currentKeyIndex, current |-> currentProject,
     saved |-> projects]

OpWrites(o, S) ==
    /\ panelOps' = [panelOps EXCEPT ![o] = S.op]
    /\ currentKeyIndex' = S.cursor
    /\ currentProject' = S.current
    /\ projects' = S.saved
    /\ UNCHANGED <<apiKeys, keyLog, calls, loads, keyTests, apiKeyStatuses,
                   isApiStatusModalOpen, keyTest, isLoading, isCancellable, view,
                   runVars, letteringEdits, reorders>>

OpBecomes(o, S) == OpWrites(o, S) /\ UNCHANGED editingPanelIndex

\* pagesInProgress is assigned and published
inProgress(S, pages) ==
    publish([S EXCEPT !.op.pagesInProgress = pages], [storyPages |-> pages])

\* a reset that leaves the failure mark on the panel
regenerateReset_KeepsFailure(pages, pageIndex) ==
    [k \in 1..Len(pages) |->
        IF k - 1 = pageIndex
        THEN [pages[k] EXCEPT !.isGenerating = TRUE, !.isLettering = FALSE,
                              !.image = NullImage, !.lettering = NullLettering]
        ELSE pages[k]]

\* lines 412-416: the panel's record reset
regenerateReset(pages, pageIndex) ==
    [k \in 1..Len(pages) |->
        IF k - 1 = pageIndex
        THEN [pages[k] EXCEPT !.isGenerating = TRUE, !.isLettering = FALSE,
                              !.image = NullImage, !.lettering = NullLettering,
                              !.generationFailed = FALSE, !.failureReason = ""]
        ELSE pages[k]]

\* line 459: the panel's record when an edit begins
editReset(pages, pageIndex) ==
    [k \in 1..Len(pages) |->
        IF k - 1 = pageIndex
        THEN [pages[k] EXCEPT !.isGenerating = TRUE, !.lettering = NullLettering]
        ELSE pages[k]]

\* lines 439 and 470: the lettering has arrived
letteringStored(pages, pageIndex, letteringData) ==
    [k \in 1..Len(pages) |->
        IF k - 1 = pageIndex
        THEN [pages[k] EXCEPT !.lettering = Lettering(letteringData),
                              !.isLettering = FALSE]
        ELSE pages[k]]

\* lines 444-449: the catch block of handleRegeneratePanel, which maps
\* currentProject.storyPages as its closure holds them
regenerateFailed(op, error) ==
    LET reason == IF isGeminiApiError(error)
                  THEN error.userFriendlyMessage
                  ELSE "An unknown error occurred during regeneration."
    IN  [k \in 1..Len(op.storyPages) |->
            IF k - 1 = op.pageIndex
            THEN [op.storyPages[k] EXCEPT
                     !.isGenerating = FALSE, !.isLettering = FALSE,
                     !.generationFailed = TRUE, !.failureReason = reason]
            ELSE op.storyPages[k]]

\* line 483: the catch block of handleEditPanel
editFailed(op) ==
    [k \in 1..Len(op.pagesInProgress) |->
        IF k - 1 = op.pageIndex
        THEN [op.pagesInProgress[k] EXCEPT !.isGenerating = FALSE,
                                           !.isLettering = FALSE]
        ELSE op.pagesInProgress[k]]

\* lines 475-481: what the catch block of handleEditPanel tells the user
editAlert(error) ==
    IF isGeminiApiError(error) THEN "Panel Edit Failed: " \o error.userFriendlyMessage
    ELSE "An unexpected error occurred: " \o error.message

\* lines 442-451 and 473-485: an await of the handler has thrown
opCatch(S, error) ==
    IF S.op.kind = "regenerate"
    THEN [inProgress(S, regenerateFailed(S.op, error)) EXCEPT !.op.pc = "failed"]
    ELSE [inProgress(S, editFailed(S.op)) EXCEPT !.op.pc = "failed",
                                                 !.op.alert = editAlert(error)]

\* lines 439-440 and 470-471: analyzePanelForLettering has returned
opLetteringSettled(S, result) ==
    IF result.ok
    THEN [inProgress(S, letteringStored(S.op.pagesInProgress, S.op.pageIndex,
                                        result.value))
             EXCEPT !.op.pc = "done"]
    ELSE opCatch(S, result.error)

\* lines 434-437 and 465-468: the image call has settled; on success the
\* image is published and analyzePanelForLettering runs up to its await
opImageSettled(S, result) ==
    IF ~result.ok THEN opCatch(S, result.error)
    ELSE LET stored == inProgress(S, imageStored(S.op.pagesInProgress,
                                                 S.op.pageIndex, result.value))
             page == S.op.storyPages[S.op.pageIndex + 1]
             started == geminiApiCallStart(S.cursor)
         IN  IF nothingToPlace(page)
             THEN opLetteringSettled(stored, Returns(<<>>))
             ELSE [stored EXCEPT !.op.pc = "lettering", !.op.call = started.call,
                                 !.cursor = started.cursor]

\* lines 408-422: handleRegeneratePanel up to its first await
handleRegeneratePanel(S, pageIndex) ==
    LET pages == S.current.storyPages
        started == geminiApiCallStart(S.cursor)
        op == [IdleOp EXCEPT
                  !.kind = "regenerate", !.pc = "image", !.pageIndex = pageIndex,
                  !.storyPages = pages,
                  !.request = <<[description |-> pages[pageIndex + 1].description,
                                 previousPanelImage |->
                                     previousPanelImage(pages, pageIndex)]>>,
                  !.call = started.call]
    IN  inProgress([S EXCEPT !.op = op, !.cursor = started.cursor],
                   regenerateReset(pages, pageIndex))

\* lines 455-463: handleEditPanel up to its first await
handleEditPanel(S, pageIndex) ==
    LET pages == S.current.storyPages
        started == geminiApiCallStart(S.cursor)
        op == [IdleOp EXCEPT
                  !.kind = "edit", !.pc = "image", !.pageIndex = pageIndex,
                  !.storyPages = pages,
                  !.request = <<[description |-> "edit",
                                 previousPanelImage |-> pages[pageIndex + 1].image]>>,
                  !.call = started.call]
    IN  inProgress([S EXCEPT !.op = op, !.cursor = started.cursor],
                   editReset(pages, pageIndex))

\* the panel page of the open project is on the screen
PanelsShown ==
    /\ view = "project"
    /\ currentProject # NoProject
    /\ currentProject.stage = "story-panels"

\* the user clicks Regenerate on the panel at k (1-based)
HandleRegeneratePanel(o, k) ==
    /\ PanelsShown
    /\ panelOps[o].pc = "idle"
    /\ \A d \in 1..(o - 1) : panelOps[d].pc # "idle"
    /\ k \in 1..Len(currentProject.storyPages)
    /\ regenerateOffered(currentProject.storyPages[k])
    /\ OpBecomes(o, handleRegeneratePanel(OpState(o), k - 1))

\* the user edits the panel at k: handleSaveEdit (StoryDisplay.tsx lines
\* 358-366) calls handleEditPanel
HandleEditPanel(o, k) ==
    /\ PanelsShown
    /\ panelOps[o].pc = "idle"
    /\ \A d \in 1..(o - 1) : panelOps[d].pc # "idle"
    /\ k \in 1..Len(currentProject.storyPages)
    /\ editOffered(currentProject.storyPages[k])
    /\ hasImage(currentProject.storyPages[k].image)
    /\ OpBecomes(o, handleEditPanel(OpState(o), k - 1))

\* the image backend answers the attempt in flight of operation o
PanelImageSettle(o, response) ==
    /\ panelOps[o].pc = "image"
    /\ LET op == panelOps[o]
           outcome == IF op.kind = "regenerate"
                      THEN generatePanelImageApiLogic(response)
                      ELSE editPanelImageApiLogic(response)
           r == geminiApiCallSettle(op.call, currentKeyIndex, outcome)
           S == [OpState(o) EXCEPT !.op.call = Answered(r.call, outcome),
                                   !.cursor = r.cursor]
           E == [S EXCEPT !.op.call = ended(r.call)]
           result == IF op.kind = "regenerate" THEN generatePanelImage(r.call)
                     ELSE editPanelImage(r.call)
       IN  OpBecomes(o, IF r.call.st = "awaiting" THEN S
                        ELSE opImageSettled(E, result))

\* the lettering backend answers the attempt in flight of operation o
PanelLetteringSettle(o, response) ==
    /\ panelOps[o].pc = "lettering"
    /\ LET op == panelOps[o]
           page == op.pagesInProgress[op.pageIndex + 1]
           outcome == analyzePanelForLetteringApiLogic(
                          response, page.image, page.narration, page.dialogue)
           r == geminiApiCallSettle(op.call, currentKeyIndex, outcome)
           S == [OpState(o) EXCEPT !.op.call = Answered(r.call, outcome),
                                   !.cursor = r.cursor]
           E == [S EXCEPT !.op.call = ended(r.call)]
       IN  OpBecomes(o, IF r.call.st = "awaiting" THEN S
                        ELSE opLetteringSettled(E, analyzePanelForLettering(r.call)))

\* updateCurrentProject({ storyPages: newPages }) of a lettering element handler
LetteringEdited(k, newLettering) ==
    LET newPages == [currentProject.storyPages EXCEPT
                        ![k] = [@ EXCEPT !.lettering = Lettering(newLettering)]]
        u == updateCurrentProject(currentProject, projects, [storyPages |-> newPages])
    IN  /\ letteringEdits < MaxLetteringEdits
        /\ letteringEdits' = letteringEdits + 1
        /\ currentProject' = u.current
        /\ projects' = u.saved
        /\ UNCHANGED <<keyVars, runVars, panelOps, reorders, editingPanelIndex, loads,
                       keyTests, apiKeyStatuses, isApiStatusModalOpen, keyTest,
                       isLoading, isCancellable, view>>

\* lines 506-518 and 521-539: the element handleAddLetteringElement makes
newElement(type, id) ==
    [id |-> id, type |-> type,
     text |-> IF type = "narration" THEN "New narration..." ELSE "New dialogue...",
     x |-> 25, y |-> 25, width |-> 50, height |-> 20]

\* handleAddLetteringElement, lines 503-550, called from the panel's LetteringLayer
HandleAddLetteringElement(k, type) ==
    /\ PanelsShown
    /\ k \in 1..Len(currentProject.storyPages)
    /\ letteringLayerShown(currentProject.storyPages[k])
    /\ LetteringEdited(k, Append(currentProject.storyPages[k].lettering.list,
                                 newElement(type, <<"added", letteringEdits + 1>>)))

\* handleUpdateLetteringElement, lines 488-501
HandleUpdateLetteringElement(k, elementId, updates) ==
    /\ PanelsShown
    /\ k \in 1..Len(currentProject.storyPages)
    /\ letteringLayerShown(currentProject.storyPages[k])
    /\ LET lettering == currentProject.storyPages[k].lettering.list
       IN  /\ \E n \in 1..Len(lettering) : lettering[n].id = elementId
           /\ LetteringEdited(k,
                  [n \in 1..Len(lettering) |->
                      IF lettering[n].id = elementId
                      THEN [f \in DOMAIN lettering[n] |->
                               IF f \in DOMAIN updates THEN updates[f]
                               ELSE lettering[n][f]]
                      ELSE lettering[n]])

\* handleDeleteLetteringElement, lines 552-561
HandleDeleteLetteringElement(k, elementId) ==
    /\ PanelsShown
    /\ k \in 1..Len(currentProject.storyPages)
    /\ letteringLayerShown(currentProject.storyPages[k])
    /\ LetteringEdited(k, SelectSeq(currentProject.storyPages[k].lettering.list,
                                    LAMBDA el : el.id # elementId))

\* the ids of the lettering elements of the panel at k
elementIds(k) ==
    {currentProject.storyPages[k].lettering.list[n].id :
        n \in 1..Len(currentProject.storyPages[k].lettering.list)}

\* a drag of an element (LetteringLayer.tsx line 61)
Drags == {[x |-> 30, y |-> 30]}

\* the project open on its panel page, its panels generated by an earlier run
InitPanelOps ==
    /\ InitKeys
    /\ Len(apiKeys) <= 1 + MaxOpUserKeys
    /\ \E pages \in GeneratedPanelLists :
          /\ currentProject = [SavedProject EXCEPT
                                  !.storyPages = pages, !.stage = "story-panels",
                                  !.generatedFromChapterTitle = "Chapter 1"]
          /\ projects = <<currentProject>>
    /\ view = "project"
    /\ loads = 1
    /\ apiKeyStatuses = <<>>
    /\ isApiStatusModalOpen = FALSE
    /\ keyTest = "idle"
    /\ isLoading = FALSE
    /\ isCancellable = FALSE
    /\ generationCancelledRef = FALSE
    /\ runPc = "none"
    /\ keyTests = 0
    /\ runs = 0
    /\ runChapter = ""
    /\ pagesWithImages = <<>>
    /\ finalPages = <<>>
    /\ panelIndex = 0
    /\ scriptCall = IdleCall
    /\ imageCall = <<>>
    /\ imageRequest = <<>>
    /\ letteringOrder = <<>>
    /\ letteringCall = <<>>
    /\ letteringPromises = <<>>
    /\ panelOps = [o \in 1..MaxOps |-> IdleOp]
    /\ letteringEdits = 0
    /\ reorders = <<>>
    /\ editingPanelIndex = NoPanel

NextPanelOps ==
    \/ \E o \in 1..MaxOps, k \in 1..MaxPanels : HandleRegeneratePanel(o, k)
    \/ \E o \in 1..MaxOps, k \in 1..MaxPanels : HandleEditPanel(o, k)
    \/ \E o \in 1..MaxOps :
           /\ panelOps[o].pc = "image"
           /\ \E response \in
                  IF panelOps[o].kind = "regenerate"
                  THEN RegenerateResponses(panelOps[o].request[1].description)
                  ELSE EditResponses(panelOps[o].request[1].previousPanelImage) :
                  PanelImageSettle(o, response)
    \/ \E o \in 1..MaxOps :
           /\ panelOps[o].pc = "lettering"
           /\ LET page == panelOps[o].pagesInProgress[panelOps[o].pageIndex + 1]
              IN  \E response \in LetteringResponses(page.narration, page.dialogue) :
                      PanelLetteringSettle(o, response)
    \/ \E k \in 1..MaxPanels, type \in {"dialogue", "narration"} :
           HandleAddLetteringElement(k, type)
    \/ /\ PanelsShown
       /\ \E k \in 1..Len(currentProject.storyPages) :
              \E elementId \in elementIds(k), updates \in Drags :
                  HandleUpdateLetteringElement(k, elementId, updates)
    \/ /\ PanelsShown
       /\ \E k \in 1..Len(currentProject.storyPages) :
              \E elementId \in elementIds(k) : HandleDeleteLetteringElement(k, elementId)

SpecPanelOps == InitPanelOps /\ [][NextPanelOps]_vars

(***************************************************************************)
(* A chapter of StoryPanels panels generated, and a panel regenerated.     *)
(***************************************************************************)
\* the script of the chapter
StoryScript == [k \in 1..StoryPanels |-> ScriptPage(k, FALSE)]

\* what the image backend answers in SpecStory: a picture, a blocked
\* response, or the rate-limit error
StoryImageResponses(description) ==
    {Response("image", description, <<>>), Response("blocked", "", <<>>),
     ErrorResponse(ErrResourceExhausted)}

\* what the lettering backend answers in SpecStory
StoryLetteringResponses(narration, dialogue) ==
    {Response("json", "", PlacedElements(narration, dialogue)),
     Response("garbage", "", <<>>)}

InitStory == Init /\ Len(apiKeys) <= 1 + MaxOpUserKeys

NextStory ==
    \/ HandleLoadProject
    \/ \E chapter \in Chapters : HandleGenerateStory(chapter)
    \/ ScriptSettle(Response("json", "", StoryScript))
    \/ /\ runPc = "images"
       /\ \E response \in StoryImageResponses(pagesWithImages[panelIndex + 1].description) :
              ImageSettle(response)
    \/ /\ runPc = "lettering"
       /\ \E k \in 1..Len(pagesWithImages) :
              \E response \in StoryLetteringResponses(pagesWithImages[k].narration,
                                                      pagesWithImages[k].dialogue) :
                  LetteringSettle(k, response)
    \/ \E k \in 1..StoryPanels : HandleRegeneratePanel(1, k)
    \/ /\ panelOps[1].pc = "image"
       /\ \E response \in StoryImageResponses(panelOps[1].request[1].description \o ", again") :
              PanelImageSettle(1, response)
    \/ /\ panelOps[1].pc = "lettering"
       /\ LET page == panelOps[1].pagesInProgress[panelOps[1].pageIndex + 1]
          IN  \E response \in StoryLetteringResponses(page.narration, page.dialogue) :
                  PanelLetteringSettle(1, response)

SpecStory == InitStory /\ [][NextStory]_vars

(***************************************************************************)
(* handleReorderPages (lines 563-576): a panel dragged onto another one.   *)
(***************************************************************************)
\* lines 565-567: the two splices, which take the panel at dragIndex out of
\* the copy and put it in at dropIndex
newPages(pages, dragIndex, dropIndex) ==
    LET draggedItem == pages[dragIndex + 1]
        spliced == [k \in 1..(Len(pages) - 1) |->
                       IF k - 1 < dragIndex THEN pages[k] ELSE pages[k + 1]]
    IN  SubSeq(spliced, 1, dropIndex) \o <<draggedItem>> \o
        SubSeq(spliced, dropIndex + 1, Len(spliced))

\* the panels left with the page numbers they had
renumberedPages_Kept(pages) == pages

\* lines 570-573: newPages.map((page, index) => ({ ...page, page: index + 1 }))
renumberedPages(pages) == [k \in 1..Len(pages) |-> [pages[k] EXCEPT !.page = k]]

\* StoryDisplay.tsx handleDrop (lines 79-86) calls onReorderPages with the
\* index the drag began at and the index of the panel dropped on, if they
\* differ; handleReorderPages publishes the list renumbered
HandleReorderPages(dragIndex, dropIndex) ==
    /\ PanelsShown
    /\ Len(reorders) < MaxReorders
    /\ editingPanelIndex = NoPanel
    /\ dragIndex \in 0..(Len(currentProject.storyPages) - 1)
    /\ dropIndex \in 0..(Len(currentProject.storyPages) - 1)
    /\ dragIndex # dropIndex
    /\ LET renumbered == renumberedPages(
                             newPages(currentProject.storyPages, dragIndex, dropIndex))
           u == updateCurrentProject(currentProject, projects,
                                     [storyPages |-> renumbered])
       IN  /\ currentProject' = u.current
           /\ projects' = u.saved
    /\ reorders' = Append(reorders, [dragIndex |-> dragIndex, dropIndex |-> dropIndex])
    /\ UNCHANGED <<keyVars, runVars, panelOps, letteringEdits, editingPanelIndex, loads,
                   keyTests, apiKeyStatuses, isApiStatusModalOpen, keyTest, isLoading,
                   isCancellable, view>>

\* the panel lists of a generated chapter of StoryPanels panels
StoryPanelLists ==
    {[k \in 1..StoryPanels |-> IF k \in failed THEN FailedPanel(k) ELSE CompletePanel(k)] :
        failed \in SUBSET (1..StoryPanels)}

\* the App with the project open on its panel page, its panels `pages`
\* generated from Chapter 1 by an earlier run, and room for `ops` operations
ProjectOpen(pages, ops) ==
    /\ currentProject = [SavedProject EXCEPT
                            !.storyPages = pages, !.stage = "story-panels",
                            !.generatedFromChapterTitle = "Chapter 1"]
    /\ projects = <<currentProject>>
    /\ view = "project"
    /\ loads = 1
    /\ apiKeyStatuses = <<>>
    /\ isApiStatusModalOpen = FALSE
    /\ keyTest = "idle"
    /\ isLoading = FALSE
    /\ isCancellable = FALSE
    /\ generationCancelledRef = FALSE
    /\ runPc = "none"
    /\ keyTests = 0
    /\ runs = 0
    /\ runChapter = ""
    /\ pagesWithImages = <<>>
    /\ finalPages = <<>>
    /\ panelIndex = 0
    /\ scriptCall = IdleCall
    /\ imageCall = <<>>
    /\ imageRequest = <<>>
    /\ letteringOrder = <<>>
    /\ letteringCall = <<>>
    /\ letteringPromises = <<>>
    /\ panelOps = [o \in 1..ops |-> IdleOp]
    /\ letteringEdits = 0
    /\ reorders = <<>>
    /\ editingPanelIndex = NoPanel

InitReorder ==
    /\ InitKeys
    /\ Len(apiKeys) <= 1 + MaxOpUserKeys
    /\ \E pages \in StoryPanelLists : ProjectOpen(pages, 1)

\* panels dragged about while one of them is regenerated
NextReorder ==
    \/ \E dragIndex, dropIndex \in 0..(StoryPanels - 1) :
           HandleReorderPages(dragIndex, dropIndex)
    \/ \E k \in 1..StoryPanels : HandleRegeneratePanel(1, k)
    \/ /\ panelOps[1].pc = "image"
       /\ \E response \in StoryImageResponses(panelOps[1].request[1].description \o ", again") :
              PanelImageSettle(1, response)
    \/ /\ panelOps[1].pc = "lettering"
       /\ LET page == panelOps[1].pagesInProgress[panelOps[1].pageIndex + 1]
          IN  \E response \in StoryLetteringResponses(page.narration, page.dialogue) :
                  PanelLetteringSettle(1, response)

SpecReorder == InitReorder /\ [][NextReorder]_vars

(***************************************************************************)
(* The EditPanelModal of StoryDisplay.  The Edit button of a panel opens   *)
(* the modal (handleOpenEditModal); handleEditPanel is called when the     *)
(* user applies the edit there (handleSaveEdit), with the panel list of    *)
(* that moment.  The modal covers the page: while it is open no other      *)
(* button can be clicked, and the responses of the operations in flight    *)
(* keep arriving.                                                          *)
(***************************************************************************)
\* StoryDisplay.tsx line 358, from the Edit button of the panel at k (lines
\* 436 and 445-451)
HandleOpenEditModal(k) ==
    /\ PanelsShown
    /\ editingPanelIndex = NoPanel
    /\ k \in 1..Len(currentProject.storyPages)
    /\ editOffered(currentProject.storyPages[k])
    /\ editingPanelIndex' = k - 1
    /\ UNCHANGED <<keyVars, uiVars, runVars, panelOps, letteringEdits, reorders>>

\* StoryDisplay.tsx line 359: Cancel, or a click beside the modal
HandleCloseEditModal ==
    /\ editingPanelIndex # NoPanel
    /\ editingPanelIndex' = NoPanel
    /\ UNCHANGED <<keyVars, uiVars, runVars, panelOps, letteringEdits, reorders>>

\* StoryDisplay.tsx lines 360-365: Apply Edit calls onEdit and closes the
\* modal; handleEditPanel returns at once if the panel has no image (part_000
\* lines 455-457)
HandleSaveEdit(o) ==
    /\ PanelsShown
    /\ editingPanelIndex # NoPanel
    /\ panelOps[o].pc = "idle"
    /\ \A d \in 1..(o - 1) : panelOps[d].pc # "idle"
    /\ editingPanelIndex' = NoPanel
    /\ IF hasImage(currentProject.storyPages[editingPanelIndex + 1].image)
       THEN OpWrites(o, handleEditPanel(OpState(o), editingPanelIndex))
       ELSE UNCHANGED <<keyVars, uiVars, runVars, panelOps, letteringEdits, reorders>>

\* what the image backend answers in SpecEditModal
ModalImageResponses(op) ==
    {Response("image",
              IF op.kind = "regenerate" THEN op.request[1].description \o ", again"
              ELSE op.request[1].previousPanelImage.data \o ", edited", <<>>),
     Response("blocked", "", <<>>)}

InitEditModal ==
    /\ InitKeys
    /\ Len(apiKeys) <= 1 + MaxOpUserKeys
    /\ \E pages \in GeneratedPanelLists : ProjectOpen(pages, ModalOps)

\* panels regenerated and edited through the modal
NextEditModal ==
    \/ /\ editingPanelIndex = NoPanel
       /\ \E o \in 1..ModalOps, k \in 1..MaxPanels : HandleRegeneratePanel(o, k)
    \/ \E k \in 1..MaxPanels : HandleOpenEditModal(k)
    \/ HandleCloseEditModal
    \/ \E o \in 1..ModalOps : HandleSaveEdit(o)
    \/ \E o \in 1..ModalOps :
           /\ panelOps[o].pc = "image"
           /\ \E response \in ModalImageResponses(panelOps[o]) :
                  PanelImageSettle(o, response)
    \/ \E o \in 1..ModalOps :
           /\ panelOps[o].pc = "lettering"
           /\ LET page == panelOps[o].pagesInProgress[panelOps[o].pageIndex + 1]
              IN  \E response \in StoryLetteringResponses(page.narration, page.dialogue) :
                      PanelLetteringSettle(o, response)

SpecEditModal == InitEditModal /\ [][NextEditModal]_vars

(***************************************************************************)
(* One chapter generated after another: the user goes back from the panel  *)
(* page to the chapter list and selects a chapter again.                   *)
(***************************************************************************)
\* StoryDisplay's onBack (part_000 line 647):
\* updateCurrentProject({ stage: 'chapter-selection' })
HandleBack ==
    /\ PanelsShown
    /\ ~isLoading
    /\ LET u == updateCurrentProject(currentProject, projects,
                                     [stage |-> "chapter-selection"])
       IN  /\ currentProject' = u.current
           /\ projects' = u.saved
    /\ UNCHANGED <<keyVars, runVars, opVars, loads, keyTests, apiKeyStatuses,
                   isApiStatusModalOpen, keyTest, isLoading, isCancellable, view>>

\* handleSelectChapter, lines 286-295: the chapter already generated is
\* shown again, any other chapter is generated (handleGenerateStory up to
\* its first await). ChapterSelection is on the screen when the Loader is
\* not; the runs of a behaviour are followed one at a time, a chapter being
\* chosen when no run is in flight.
HandleSelectChapter(chapter) ==
    /\ view = "project"
    /\ currentProject.stage = "chapter-selection"
    /\ ~isLoading
    /\ ~RunActive
    /\ IF /\ Len(currentProject.storyPages) > 0
          /\ currentProject.generatedFromChapterTitle = chapter
       THEN LET u == updateCurrentProject(currentProject, projects,
                                          [stage |-> "story-panels"])
            IN  /\ currentProject' = u.current
                /\ projects' = u.saved
                /\ UNCHANGED <<keyVars, runVars, opVars, loads, keyTests,
                               apiKeyStatuses, isApiStatusModalOpen, keyTest,
                               isLoading, isCancellable, view>>
       ELSE /\ runs < MaxStoryRuns
            /\ Becomes(startRun(RunState, chapter))

\* what the script backend answers in SpecRuns: a script in page order, or
\* the rate-limit error
RunScriptResponses ==
    {Response("json", "", [k \in 1..n |-> ScriptPage(k, FALSE)]) : n \in 1..MaxPanels} \cup
    {ErrorResponse(ErrResourceExhausted)}

\* what the image backend answers in SpecRuns
RunImageResponses(description) ==
    {Response("image", description, <<>>), ErrorResponse(ErrResourceExhausted),
     ErrorResponse(ErrInvalidKey)}

\* what the lettering backend answers in SpecRuns
RunLetteringResponses(narration, dialogue) ==
    {Response("json", "", PlacedElements(narration, dialogue)),
     ErrorResponse(ErrResourceExhausted)}

\* the app starts with the primary key set and up to MaxRunUserKeys user keys
InitRuns == Init /\ apiKeys[1] = "ENVKEY" /\ Len(apiKeys) <= 1 + MaxRunUserKeys

\* the backend answers the script call in flight
ScriptAnswered == \E response \in RunScriptResponses : ScriptSettle(response)

\* the backend answers the image call in flight
ImageAnswered ==
    /\ runPc = "images"
    /\ \E response \in RunImageResponses(pagesWithImages[panelIndex + 1].description) :
           ImageSettle(response)

\* the backend answers one of the lettering calls in flight
LetteringAnswered ==
    /\ runPc = "lettering"
    /\ \E k \in 1..Len(pagesWithImages) :
           \E response \in RunLetteringResponses(pagesWithImages[k].narration,
                                                 pagesWithImages[k].dialogue) :
               LetteringSettle(k, response)

NextRuns ==
    \/ HandleLoadProject
    \/ HandleBackToDashboard
    \/ HandleBack
    \/ \E chapter \in Chapters : HandleSelectChapter(chapter)
    \/ HandleCancelGeneration
    \/ ScriptAnswered
    \/ ImageAnswered
    \/ LetteringAnswered
    \/ HandleTestApiKeys
    \/ TestApiKeysSettle([k \in 1..Len(apiKeys) |-> Returns("hello")])

\* Every call to the backend that is in flight is answered at some time: weak
\* fairness of the three answers. WF_vars(A) is []<>~ENABLED <<A>>_vars \/
\* []<><<A>>_vars; an answer is possible exactly while the run awaits it
\* (ScriptSettle, ImageSettle and LetteringSettle are guarded by the stage
\* alone, in the lettering stage a promise is pending, and an answer always
\* changes the record of its call), so ENABLED is written as that stage.
AnswersFair ==
    /\ []<>(runPc # "script") \/ []<><<ScriptAnswered>>_vars
    /\ []<>(runPc # "images") \/ []<><<ImageAnswered>>_vars
    /\ []<>(runPc # "lettering") \/ []<><<LetteringAnswered>>_vars

SpecRuns == InitRuns /\ [][NextRuns]_vars /\ AnswersFair

(***************************************************************************)
(* Properties of the key pool and of geminiApiCall.                        *)
(***************************************************************************)
PoolSize == Len(apiKeys)

\* the answers of a call that was rate-limited on each of its first n attempts
RateLimitedTimes(n) == [k \in 1..n |-> "rate-limit"]

\* C1: with nothing else calling getNextKey, the j-th call from cursor 0
\* returns index (j-1) mod N together with the credential stored at that
\* index: the first N calls return 0..N-1 in ascending order, each once, and
\* the (N+1)-th call returns index 0 again.
C1_RoundRobinOrder ==
    \A j \in 1..Len(keyLog) :
        /\ keyLog[j].index = (j - 1) % PoolSize
        /\ keyLog[j].key = apiKeys[keyLog[j].index + 1]

\* a pool of three keys has been gone round once and a fourth call made
C1_Witness ==
    /\ PoolSize = 3
    /\ Len(keyLog) = 4
    /\ keyLog[4].index = 0

\* C2: in a call that nothing interleaves with, as long as every attempt so
\* far was rate-limited and fewer than N were made the next key is tried;
\* once N attempts were rate-limited the call has failed with the
\* all-keys-exhausted error, and apiLogic was invoked exactly N times, once
\* with each pool index.
C2_ExhaustsEveryKeyOnce ==
    \A c \in 1..MaxCallers :
        LET call == calls[c]
            n == Len(call.answers)
        IN  (n > 0 /\ call.answers = RateLimitedTimes(n)) =>
                IF n < PoolSize
                THEN /\ call.st = "awaiting"
                     /\ Len(call.tried) = n + 1
                ELSE /\ n = PoolSize
                     /\ call.st = "thrown"
                     /\ call.thrown = AllKeysRateLimitedError
                     /\ Len(call.tried) = PoolSize
                     /\ \A idx \in 0..(PoolSize - 1) :
                            Cardinality({k \in 1..PoolSize : call.tried[k] = idx}) = 1

\* a call on a pool of three keys was rate-limited three times and has failed
C2_Witness ==
    \E c \in 1..MaxCallers :
        /\ PoolSize = 3
        /\ calls[c].answers = RateLimitedTimes(3)
        /\ calls[c].st = "thrown"
        /\ calls[c].start # 0

\* C3: under any interleaving of calls, an attempt that fails with an error
\* not classified as rate-limit is the last attempt of its call: the call has
\* thrown that same error, and apiLogic was invoked exactly as many times as
\* that attempt's number (once, when it was the first).
C3_NonQuotaErrorFailsFast ==
    \A c \in 1..MaxCallers :
        LET call == calls[c]
        IN  \A k \in 1..Len(call.answers) :
                call.answers[k] = "other" =>
                    /\ k = Len(call.answers)
                    /\ call.st = "thrown"
                    /\ call.thrown = call.raised
                    /\ ~isRateLimitError(call.thrown)
                    /\ Len(call.tried) = k

\* a call on a pool of three keys failed fast on its second attempt, and
\* another on its first
C3_Witness ==
    /\ PoolSize = 3
    /\ \E c \in 1..MaxCallers : calls[c].answers = <<"rate-limit", "other">>
    /\ \E c \in 1..MaxCallers : calls[c].answers = <<"other">>

\* C4: when the attempt in flight of a call succeeds, the call returns that
\* attempt's value after k attempts of which the first k-1 were rate-limited,
\* the cursor stands k positions (mod N) after the one the call started at,
\* and a call that has returned makes no further attempt.
C4_SuccessEndsTheCall ==
    [][\A c \in 1..MaxCallers :
          /\ (calls[c].st = "awaiting" /\ calls'[c].st = "returned") =>
                LET k == Len(calls'[c].tried)
                IN  /\ calls'[c].tried = calls[c].tried
                    /\ calls'[c].answers = Append(RateLimitedTimes(k - 1), "ok")
                    /\ calls'[c].result = "result"
                    /\ currentKeyIndex' = (calls'[c].start + k) % PoolSize
          /\ calls[c].st = "returned" => calls'[c] = calls[c]
      ]_vars

\* a call on a pool of three keys has returned from its second attempt
C4_Witness ==
    \E c \in 1..MaxCallers :
        /\ PoolSize = 3
        /\ calls[c].st = "returned"
        /\ calls[c].answers = <<"rate-limit", "ok">>

(***************************************************************************)
(* The pipeline's properties, under Spec.                                  *)
(***************************************************************************)
\* C5: in every reachable state of the program (geminiApiCall invoked one
\* at a time by the script and image stages and concurrently by the
\* lettering stage, next to testApiKeys reading getApiKeys) the cursor
\* currentKeyIndex is an integer with 0 <= currentKeyIndex < pool size.
C5_CursorInRange ==
    /\ currentKeyIndex \in Int
    /\ 0 <= currentKeyIndex
    /\ currentKeyIndex < Len(apiKeys)

\* two lettering calls are in flight after the cursor has wrapped around a
\* pool of three keys, and the keys have been tested
C5_Witness ==
    /\ Len(apiKeys) = 3
    /\ keyTests > 0
    /\ apiKeyStatuses # <<>>
    /\ runPc = "lettering"
    /\ Len(letteringCall) = 2
    /\ letteringCall[1].st = "awaiting"
    /\ letteringCall[2].st = "awaiting"
    /\ letteringCall[2].index < letteringCall[2].start
    /\ currentKeyIndex = 0

started(call) == call.st # "idle"

over(call) == call.st \in {"returned", "thrown"}

\* the outcome of a panel's image call is in the panel list
outcomeWritten(page) ==
    /\ ~page.isGenerating
    /\ hasImage(page.image) \/ page.generationFailed

\* C6: during a run the image call of a panel has started only if the image
\* calls of all panels before it are over and their outcomes (image stored,
\* or failure recorded) are in the panel list; so the calls start in
\* ascending order and at most one is in flight.
C6_ImagesOneByOne ==
    /\ Len(imageCall) \in {0, Len(pagesWithImages)}
    /\ \A k \in 1..Len(imageCall) :
          started(imageCall[k]) =>
              \A j \in 1..(k - 1) :
                  /\ over(imageCall[j])
                  /\ outcomeWritten(pagesWithImages[j])
    /\ Cardinality({k \in 1..Len(imageCall) : imageCall[k].st = "awaiting"}) <= 1
    /\ \A k \in 1..Len(imageCall) :
          imageCall[k].st = "awaiting" => runPc = "images" /\ panelIndex = k - 1

\* the second panel's image call is in flight with the first panel's image stored
C6_Witness ==
    /\ runPc = "images"
    /\ Len(imageCall) = 2
    /\ imageCall[2].st = "awaiting"
    /\ imageCall[1].st = "returned"
    /\ pagesWithImages[1].image = PngImage(pagesWithImages[1].description)

CancelReason == "Generation was cancelled."

\* a panel record after its image call's outcome was written over `before`
settledRecord(before, after) ==
    \/ /\ hasImage(after.image)
       /\ after = [before EXCEPT !.image = after.image, !.isGenerating = FALSE,
                                 !.isLettering = TRUE]
    \/ /\ after.failureReason \notin {"", CancelReason}
       /\ after = [before EXCEPT !.isGenerating = FALSE, !.isLettering = FALSE,
                                 !.generationFailed = TRUE,
                                 !.failureReason = after.failureReason,
                                 !.image = NullImage]

\* a run that ended cancelled with panelIndex = i: no image call was made
\* for a panel from i on and each of them is marked cancelled, every panel
\* before i has its outcome and no cancellation mark, and nothing of the
\* lettering stage exists
C7_CancelledState ==
    runPc = "cancelled" =>
        /\ letteringPromises = <<>>
        /\ letteringCall = <<>>
        /\ letteringOrder = <<>>
        /\ \A k \in 1..Len(pagesWithImages) :
              IF k > panelIndex
              THEN /\ imageCall[k].st = "idle"
                   /\ ~pagesWithImages[k].isGenerating
                   /\ pagesWithImages[k].generationFailed
                   /\ pagesWithImages[k].failureReason = CancelReason
              ELSE /\ over(imageCall[k])
                   /\ outcomeWritten(pagesWithImages[k])
                   /\ pagesWithImages[k].failureReason # CancelReason

\* the step that ends the run cancelled leaves the records of the panels
\* before panelIndex' as they were, the panel whose call settled in this step
\* as its outcome makes it
C7_EarlierPanelsKept ==
    (runPc = "images" /\ runPc' = "cancelled") =>
        \A k \in 1..panelIndex' :
            IF k <= panelIndex
            THEN pagesWithImages'[k] = pagesWithImages[k]
            ELSE settledRecord(pagesWithImages[k], pagesWithImages'[k])

\* with the flag set, the run's next iteration starts no image call: the run
\* stays where it is or ends
C7_NoCallOnceCancelled ==
    (generationCancelledRef /\ runPc \in {"script", "images"}) =>
        \/ runPc' = runPc /\ panelIndex' = panelIndex
        \/ runPc' \in {"cancelled", "failed"}

\* C7: if the cancellation flag is set when iteration i of the image loop
\* begins, no image call is made for a panel j >= i, every panel j >= i ends
\* with isGenerating=false, generationFailed=true and the cancellation
\* reason, every panel j < i keeps the record it had, and no lettering call
\* is dispatched in that run.
C7_CancelStopsTheLoop ==
    /\ []C7_CancelledState
    /\ [][C7_EarlierPanelsKept]_vars
    /\ [][C7_NoCallOnceCancelled]_vars

\* cancelled at the second of two panels: the first has its image
C7_Witness ==
    /\ runPc = "cancelled"
    /\ Len(pagesWithImages) = 2
    /\ panelIndex = 1
    /\ pagesWithImages[1].image = PngImage(pagesWithImages[1].description)
    /\ pagesWithImages[2].failureReason = CancelReason
    /\ imageCall[2].st = "idle"

\* the step in which generatePanelImage throws for the panel at k
imageCallRaised(k) ==
    /\ runPc = "images"
    /\ panelIndex = k - 1
    /\ imageCall[k].st = "awaiting"
    /\ over(imageCall'[k])
    /\ ~generatePanelImage(imageCall'[k]).ok

\* C8: when the image call of panel i raises an error, panel i is recorded
\* with isGenerating=false, isLettering=false, generationFailed=true, the
\* error's user-friendly message as failure reason and image=null; the
\* records of the panels before it are unchanged, those of the panels after it
\* too unless the flag is set and the next iteration marks them cancelled; the
\* loop goes on to panel i+1 and the run is not aborted.
C8_ImageFailureIsLocal ==
    [][\A k \in 1..Len(pagesWithImages) :
          imageCallRaised(k) =>
              /\ pagesWithImages'[k] =
                     [pagesWithImages[k] EXCEPT
                         !.isGenerating = FALSE, !.isLettering = FALSE,
                         !.generationFailed = TRUE,
                         !.failureReason =
                             generatePanelImage(imageCall'[k]).error.userFriendlyMessage,
                         !.image = NullImage]
              /\ pagesWithImages'[k].failureReason # ""
              /\ \A j \in 1..(k - 1) : pagesWithImages'[j] = pagesWithImages[j]
              /\ \A j \in (k + 1)..Len(pagesWithImages) :
                    pagesWithImages'[j] =
                        IF generationCancelledRef
                        THEN [pagesWithImages[j] EXCEPT
                                 !.isGenerating = FALSE, !.generationFailed = TRUE,
                                 !.failureReason = CancelReason]
                        ELSE pagesWithImages[j]
              /\ panelIndex' = panelIndex + 1
              /\ runPc' # "failed"
              /\ ~generationCancelledRef =>
                    IF k < Len(pagesWithImages)
                    THEN runPc' = "images" /\ imageCall'[k + 1].st = "awaiting"
                    ELSE runPc' \in {"lettering", "done"}]_vars

\* the first panel's failure is recorded and the second panel's call is in flight
C8_Witness ==
    /\ runPc = "images"
    /\ Len(pagesWithImages) = 2
    /\ imageCall[1].st = "thrown"
    /\ pagesWithImages[1].generationFailed
    /\ pagesWithImages[1].image = NullImage
    /\ pagesWithImages[1].failureReason # ""
    /\ imageCall[2].st = "awaiting"
    /\ pagesWithImages[2].isGenerating

\* the lettering stage called analyzePanelForLettering for the panel at k:
\* its entry of letteringPromises is not Promise.resolve(null)
dispatched(k) ==
    letteringPromises[k].st = "pending" \/ ~letteringPromises[k].null

lettered(k) == letteringPromises[k].st = "resolved" /\ ~letteringPromises[k].null

\* the lettering stage has a call for exactly the panels with an image and
\* generationFailed=false, and a backend call only inside such a call
C9_DispatchedWhereDue ==
    runPc \in {"lettering", "done"} =>
        /\ Len(letteringPromises) = Len(pagesWithImages)
        /\ Len(letteringCall) = Len(pagesWithImages)
        /\ \A k \in 1..Len(pagesWithImages) :
              /\ dispatched(k) <=>
                     (/\ hasImage(pagesWithImages[k].image)
                      /\ ~pagesWithImages[k].generationFailed)
              /\ started(letteringCall[k]) =>
                     dispatched(k) /\ Len(letteringCall[k].tried) <= Len(apiKeys)

\* at the end of the run a panel whose lettering call failed has
\* lettering=null and isLettering=false, and every panel whose call returned
\* has what its call returned
C9_FailureStaysWithItsPanel ==
    runPc = "done" =>
        \A k \in 1..Len(finalPages) :
            lettered(k) =>
                /\ ~finalPages[k].isLettering
                /\ finalPages[k].lettering =
                       IF letteringPromises[k].error # NoError
                       THEN NullLettering
                       ELSE letteringPromises[k].lettering
                /\ letteringPromises[k].error = NoError =>
                       ~finalPages[k].lettering.null

\* once in the lettering stage the run ends done, never failed, and an entry
\* of letteringPromises that has resolved is not touched when another settles
C9_OthersUntouched ==
    runPc = "lettering" =>
        /\ runPc' \in {"lettering", "done"}
        /\ \A k \in 1..Len(letteringPromises) :
              letteringPromises[k].st = "resolved" =>
                  letteringPromises'[k] = letteringPromises[k]

\* C9: in an uncancelled run the lettering stage dispatches one lettering
\* call for every panel that has an image and generationFailed=false and none
\* for any other panel; when the call of panel k fails, panel k ends with
\* lettering=null and isLettering=false, every other panel still receives its
\* own result, and the run does not fail.
C9_LetteringPerPanel ==
    /\ []C9_DispatchedWhereDue
    /\ []C9_FailureStaysWithItsPanel
    /\ [][C9_OthersUntouched]_vars

\* the first panel's lettering call failed, the second panel has its lettering
C9_Witness ==
    /\ runPc = "done"
    /\ Len(finalPages) = 2
    /\ letteringCall[1].st = "thrown"
    /\ letteringPromises[1].error # NoError
    /\ finalPages[1].lettering = NullLettering
    /\ ~finalPages[1].isLettering
    /\ letteringCall[2].st = "returned"
    /\ ~finalPages[2].lettering.null

\* the elements of a panel's lettering carry the panel's own text
ownLettering(page, lettering) ==
    \A n \in 1..Len(lettering.list) :
        /\ lettering.list[n].text = page.narration
        /\ lettering.list[n].id = uuidv4(page.image, n)

\* C10: whatever the order in which the lettering calls complete, the final
\* panel list gives each panel k the result of the call dispatched for panel
\* k and nothing else of the panel changes: the final list is determined by
\* the calls' results alone, the same for every completion order.
C10_MergeByIndex ==
    runPc = "done" =>
        /\ Len(finalPages) = Len(pagesWithImages)
        /\ \A k \in 1..Len(finalPages) :
              IF lettered(k)
              THEN /\ letteringPromises[k].index = k - 1
                   /\ finalPages[k] =
                          [pagesWithImages[k] EXCEPT
                              !.lettering = letteringPromises[k].lettering,
                              !.isLettering = FALSE]
                   /\ ownLettering(pagesWithImages[k], finalPages[k].lettering)
              ELSE finalPages[k] = pagesWithImages[k]

\* the second panel's call completed before the first panel's, both with a result
C10_Witness ==
    /\ runPc = "done"
    /\ letteringOrder = <<2, 1>>
    /\ Len(finalPages) = 2
    /\ Len(finalPages[1].lettering.list) > 0
    /\ Len(finalPages[2].lettering.list) > 0
    /\ finalPages[1].lettering # finalPages[2].lettering

(***************************************************************************)
(* The state a run leaves behind, under Spec.                              *)
(***************************************************************************)
\* the panel list a run that has ended published last
lastPublished == IF runPc = "done" THEN finalPages ELSE pagesWithImages

\* C11: once a run has ended, by normal completion or by cancellation, no
\* panel of that run has isGenerating=true or isLettering=true.
C11_NoPanelLeftBusy ==
    runPc \in {"done", "cancelled"} =>
        \A k \in 1..Len(lastPublished) :
            /\ ~lastPublished[k].isGenerating
            /\ ~lastPublished[k].isLettering

\* the part of C11 that is about normal completion
C11_NoPanelLeftBusyWhenDone ==
    runPc = "done" =>
        \A k \in 1..Len(finalPages) :
            ~finalPages[k].isGenerating /\ ~finalPages[k].isLettering

\* a run cancelled at its second panel: the first has its image and is
\* left with isLettering=true
C11_Witness ==
    /\ runPc = "cancelled"
    /\ Len(pagesWithImages) = 2
    /\ hasImage(pagesWithImages[1].image)
    /\ pagesWithImages[1].isLettering
    /\ pagesWithImages[2].failureReason = CancelReason

\* while the script call is in flight and after it has failed, the run has
\* no panel list, no image call and no lettering call
C17_NoLaterStage ==
    runPc \in {"script", "failed"} =>
        /\ pagesWithImages = <<>>
        /\ imageCall = <<>>
        /\ imageRequest = <<>>
        /\ letteringCall = <<>>
        /\ letteringPromises = <<>>

\* a step that starts the run, answers its script call or follows its
\* failure writes nothing to the project: the saved project is unchanged and
\* the open project changes only by the user leaving or loading it
C17_ProjectUntouched ==
    runPc' \in {"script", "failed"} =>
        /\ projects' = projects
        /\ currentProject' \in {currentProject, NoProject, projects[1]}
        /\ currentProject' # NoProject /\ currentProject # NoProject =>
               /\ currentProject'.storyPages = currentProject.storyPages
               /\ currentProject'.stage = currentProject.stage
               /\ currentProject'.generatedFromChapterTitle =
                      currentProject.generatedFromChapterTitle

\* C17: if the script call fails, no image call and no lettering call is
\* made in that run, and the project's storyPages, stage and
\* generatedFromChapterTitle are what they were before the run.
C17_ScriptFailureLeavesProject ==
    /\ []C17_NoLaterStage
    /\ [][C17_ProjectUntouched]_vars

\* the script call has failed with the project open, as it was saved
C17_Witness ==
    /\ runPc = "failed"
    /\ scriptCall.st = "thrown"
    /\ view = "project"
    /\ currentProject = projects[1]
    /\ currentProject.stage = "chapter-selection"
    /\ ~isLoading

\* geminiApiCall has thrown its all-keys-rate-limited error
exhausted(call) == call.st = "thrown" /\ call.thrown = AllKeysRateLimitedError

\* the image call of the panel at k ended with every key rate-limited and
\* the loop has dealt with it
imageCallExhausted(k) == exhausted(imageCall[k]) /\ panelIndex >= k

C19_PanelRecordedFailed ==
    \A k \in 1..Len(imageCall) :
        imageCallExhausted(k) =>
            /\ pagesWithImages[k].generationFailed
            /\ pagesWithImages[k].failureReason # ""
            /\ pagesWithImages[k].image = NullImage

C19_NoLetteringCall ==
    \A k \in 1..Len(imageCall) :
        (imageCallExhausted(k) /\ runPc \in {"lettering", "done"}) => ~dispatched(k)

C19_NoReferenceHandedOn ==
    \A k \in 1..(Len(imageCall) - 1) :
        (imageCallExhausted(k) /\ started(imageCall[k + 1])) =>
            ~hasImage(imageRequest[k + 1].previousPanelImage)

everyKeyRateLimited(call) ==
    /\ Len(call.answers) = Len(apiKeys)
    /\ \A a \in 1..Len(call.answers) : call.answers[a] = "rate-limit"

\* the test the callers of geminiApiCall apply to what it throws
\* (error instanceof GeminiApiError && error.message.includes("rate limits"))
looksExhausted(error) ==
    /\ isGeminiApiError(error)
    /\ includes(Chars(error.message), Chars("rate limits"))

C20_ExhaustedIffAllRateLimited ==
    \A c \in 1..Len(calls) :
        exhausted(calls[c]) <=> everyKeyRateLimited(calls[c])

C20_FailFastLooksDifferent ==
    \A c \in 1..Len(calls) :
        (calls[c].st = "thrown" /\ ~everyKeyRateLimited(calls[c])) =>
            /\ calls[c].thrown = calls[c].raised
            /\ calls[c].thrown # AllKeysRateLimitedError
            /\ ~isRateLimitError(calls[c].thrown)
            /\ ~looksExhausted(calls[c].thrown)

\* C20: geminiApiCall raises the all-keys-exhausted error if and only if N
\* attempts were made and each failed with a rate-limit error, and the
\* caller can tell that error from every fail-fast error.
C20_ExhaustionIsTold ==
    /\ C20_ExhaustedIffAllRateLimited
    /\ C20_FailFastLooksDifferent
    /\ looksExhausted(AllKeysRateLimitedError)

\* with three keys, one call has ended exhausted and another has failed fast
\* after a rate-limited attempt
C20_Witness ==
    /\ Len(apiKeys) = 3
    /\ exhausted(calls[1])
    /\ Len(calls[1].tried) = 3
    /\ calls[2].st = "thrown"
    /\ calls[2].answers = <<"rate-limit", "other">>
    /\ calls[2].thrown \in {ErrInvalidKey, ErrNoImage}

(***************************************************************************)
(* The single-panel operations, under SpecPanelOps.                        *)
(***************************************************************************)
\* the panels of the open project
storyPages == currentProject.storyPages

\* C12: after any sequence of regenerate, edit and manual lettering
\* operations on generated panels, a panel whose lettering is non-null has a
\* non-null image and does not have generationFailed=true.
C12_LetteringNeedsImage ==
    \A k \in 1..Len(storyPages) :
        ~storyPages[k].lettering.null =>
            /\ hasImage(storyPages[k].image)
            /\ ~storyPages[k].generationFailed

\* the regeneration of a panel that had its image and lettering has failed
\* at its image call: the panel is marked failed and still holds both
C12_Witness ==
    /\ panelOps[1].kind = "regenerate"
    /\ panelOps[1].pc = "failed"
    /\ panelOps[1].pageIndex = 0
    /\ panelOps[2].pc = "idle"
    /\ letteringEdits = 0
    /\ storyPages[1].generationFailed
    /\ storyPages[1].lettering = CompletePanel(1).lettering
    /\ storyPages[1].image = CompletePanel(1).image

\* operation o is a regeneration of a panel that was marked failed when the
\* button was clicked
regeneratesFailedPanel(op) ==
    /\ op.kind = "regenerate"
    /\ op.storyPages[op.pageIndex + 1].generationFailed

\* the click's step: the reset record is published and the image call has
\* made its first attempt, which no backend has answered
C13_ResetPublishedFirst ==
    \A o \in 1..MaxOps :
        (panelOps[o].pc = "idle" /\ panelOps'[o].pc = "image"
             /\ regeneratesFailedPanel(panelOps'[o])) =>
            LET k == panelOps'[o].pageIndex + 1
            IN  /\ storyPages[k].generationFailed
                /\ ~storyPages'[k].generationFailed
                /\ storyPages'[k].failureReason = ""
                /\ storyPages'[k].isGenerating
                /\ storyPages'[k].image = NullImage
                /\ storyPages'[k].lettering = NullLettering
                /\ panelOps'[o].call.st = "awaiting"
                /\ panelOps'[o].call.answers = <<>>
                /\ \A j \in 1..Len(storyPages) : j # k => storyPages'[j] = storyPages[j]

\* the step in which the lettering of such a regeneration arrives: the image
\* call had returned the new picture, and the panel is complete
C13_CompleteOnSuccess ==
    \A o \in 1..MaxOps :
        (panelOps[o].pc \in {"image", "lettering"} /\ panelOps'[o].pc = "done"
             /\ regeneratesFailedPanel(panelOps[o])) =>
            LET k == panelOps[o].pageIndex + 1
                newImage == PngImage(panelOps[o].request[1].description \o ", again")
                exhaustedImage == createPlaceholderSvgDataUrl("API Limit Reached")
            IN  /\ storyPages'[k].image \in {newImage, exhaustedImage}
                /\ storyPages'[k].image # exhaustedImage =>
                       /\ storyPages'[k].image = newImage
                       /\ ~storyPages'[k].lettering.null
                       /\ ~storyPages'[k].isGenerating
                       /\ ~storyPages'[k].isLettering
                       /\ ~storyPages'[k].generationFailed
                       /\ storyPages'[k].failureReason = ""

\* C13: handleRegeneratePanel on a failed panel publishes a record for that
\* panel with generationFailed=false, failureReason cleared,
\* isGenerating=true, image and lettering null before any backend call is
\* answered, and if both backend calls succeed the panel ends with the new
\* image, non-null lettering, and all three flags false.
C13_RegenerateRecovers ==
    /\ [][C13_ResetPublishedFirst]_vars
    /\ [][C13_CompleteOnSuccess]_vars

\* a failed second panel has been regenerated: new image, lettering, no flag
C13_Witness ==
    /\ panelOps[1].pc = "done"
    /\ regeneratesFailedPanel(panelOps[1])
    /\ panelOps[1].pageIndex = 1
    /\ panelOps[2].pc = "idle"
    /\ storyPages[2].image = PngImage("panel 2, again")
    /\ ~storyPages[2].lettering.null
    /\ Len(storyPages[2].lettering.list) > 0
    /\ ~storyPages[2].isGenerating
    /\ ~storyPages[2].isLettering
    /\ ~storyPages[2].generationFailed

\* C14: when in handleRegeneratePanel the image call succeeds and the
\* lettering call then fails, the panel ends with the new image, lettering
\* null, isLettering=false, and generationFailed not set.
C14_LetteringFailureKeepsImage ==
    [][\A o \in 1..MaxOps :
          (panelOps[o].kind = "regenerate" /\ panelOps[o].pc = "lettering"
               /\ panelOps'[o].pc = "failed") =>
              LET k == panelOps[o].pageIndex + 1
                  newImage == panelOps[o].pagesInProgress[k].image
              IN  /\ storyPages'[k].image = newImage
                  /\ storyPages'[k].lettering = NullLettering
                  /\ ~storyPages'[k].isLettering
                  /\ ~storyPages'[k].generationFailed]_vars

\* the regeneration of a complete first panel got its new image and then
\* failed at the lettering call: the panel is marked failed and holds the
\* image and lettering it had before the click
C14_Witness ==
    /\ panelOps[1].kind = "regenerate"
    /\ panelOps[1].pc = "failed"
    /\ panelOps[1].pageIndex = 0
    /\ panelOps[1].call.thrown = ErrParseLettering
    /\ panelOps[2].pc = "idle"
    /\ letteringEdits = 0
    /\ storyPages[1].generationFailed
    /\ storyPages[1].failureReason = ErrParseLettering.userFriendlyMessage
    /\ storyPages[1].image = CompletePanel(1).image
    /\ storyPages[1].lettering = CompletePanel(1).lettering

\* C16: when the backend call of handleEditPanel fails, the error is
\* surfaced to the user and the panel's image and lettering after the
\* operation equal their values before it.
C16_FailedEditRestoresPanel ==
    [][\A o \in 1..MaxOps :
          (panelOps[o].kind = "edit" /\ panelOps[o].pc = "image"
               /\ panelOps'[o].pc = "failed") =>
              LET k == panelOps[o].pageIndex + 1
                  before == panelOps[o].storyPages[k]
              IN  /\ panelOps'[o].alert # ""
                  /\ storyPages'[k].image = before.image
                  /\ storyPages'[k].lettering = before.lettering]_vars

\* the edit of a complete first panel has failed at its image call: the user
\* was told, the image is the old one, and the lettering is gone
C16_Witness ==
    /\ panelOps[1].kind = "edit"
    /\ panelOps[1].pc = "failed"
    /\ panelOps[1].pageIndex = 0
    /\ panelOps[1].call.thrown \in {ErrNoEditedImage, ErrInvalidKey}
    /\ panelOps[1].alert # ""
    /\ panelOps[2].pc = "idle"
    /\ letteringEdits = 0
    /\ ~panelOps[1].storyPages[1].lettering.null
    /\ storyPages[1].image = panelOps[1].storyPages[1].image
    /\ storyPages[1].lettering = NullLettering

\* a panel's fields other than image, lettering, isGenerating and isLettering
keptFields(page) ==
    [page |-> page.page, description |-> page.description,
     narration |-> page.narration, dialogue |-> page.dialogue,
     layout |-> page.layout, sfx |-> page.sfx,
     generationFailed |-> page.generationFailed,
     failureReason |-> page.failureReason]

\* a step of the edit operation o leaves the kept fields of its panel and
\* every other panel as they are
editStepInFrame(o) ==
    (panelOps'[o] # panelOps[o] /\ panelOps'[o].kind = "edit") =>
        /\ Len(storyPages') = Len(storyPages)
        /\ \A j \in 1..Len(storyPages) :
              IF j = panelOps'[o].pageIndex + 1
              THEN keptFields(storyPages'[j]) = keptFields(storyPages[j])
              ELSE storyPages'[j] = storyPages[j]

\* C15: handleEditPanel, on success and on failure alike, never changes
\* page, description, narration, dialogue, layout, or sfx of the edited panel
\* and never changes any field of any other panel; only the edited panel's
\* image, lettering and isGenerating/isLettering flags can differ.
C15_EditTouchesOnlyItsPanel ==
    [][\A o \in 1..MaxOps : editStepInFrame(o)]_vars

\* the same for an edit during which nothing else has written the panel list
C15_EditAloneTouchesOnlyItsPanel ==
    [][\A o \in 1..MaxOps :
          (/\ panelOps[o].pc # "idle" =>
                  panelOps[o].pagesInProgress = storyPages)
              => editStepInFrame(o)]_vars

\* an edit of the first panel has ended; while it ran the user changed the
\* lettering of the second panel, and the edit's last publication has put
\* the second panel back as it was when the edit began
C15_Witness ==
    /\ panelOps[1].kind = "edit"
    /\ panelOps[1].pc = "done"
    /\ panelOps[1].pageIndex = 0
    /\ panelOps[1].storyPages = <<CompletePanel(1), CompletePanel(2)>>
    /\ panelOps[2].pc = "idle"
    /\ letteringEdits = 1
    /\ storyPages = panelOps[1].pagesInProgress
    /\ storyPages[2] = CompletePanel(2)

(***************************************************************************)
(* The continuity reference, under SpecStory.                              *)
(***************************************************************************)
\* what the image call of panel k (1-based) is to carry when `pages` is the
\* panel list: the image stored on the panel before it, if there is one
referenceDue(pages, k) ==
    IF k > 1 /\ hasImage(pages[k - 1].image) THEN <<pages[k - 1].image>> ELSE <<>>

\* the step in which the pipeline makes the image call of panel k
C18_PipelineReference ==
    \A k \in 1..Len(imageCall') :
        (imageCall'[k].st = "awaiting" /\ (Len(imageCall) < k \/ imageCall[k].st = "idle")) =>
            /\ continuityParts(imageRequest'[k].previousPanelImage) =
                   referenceDue(pagesWithImages', k)
            /\ currentProject' # NoProject =>
                   continuityParts(imageRequest'[k].previousPanelImage) =
                       referenceDue(currentProject'.storyPages, k)
            /\ k > 1 => imageRequest'[k].previousPanelImage = pagesWithImages'[k - 1].image

\* the step in which handleRegeneratePanel makes its image call
C18_RegenerateReference ==
    \A o \in 1..MaxOps :
        (panelOps[o].pc = "idle" /\ panelOps'[o].pc = "image"
             /\ panelOps'[o].kind = "regenerate") =>
            LET k == panelOps'[o].pageIndex + 1
                passed == panelOps'[o].request[1].previousPanelImage
            IN  /\ continuityParts(passed) = referenceDue(storyPages, k)
                /\ continuityParts(passed) = referenceDue(storyPages', k)
                /\ k > 1 => passed = storyPages[k - 1].image

\* C18: the continuity reference passed to the image call of panel i is
\* exactly the image currently stored on panel i-1, in the pipeline and in
\* handleRegeneratePanel alike: none for panel 0, none when panel i-1 has no
\* image because it failed, and never the image of an earlier panel.
C18_ReferenceIsPreviousPanel ==
    /\ [][C18_PipelineReference]_vars
    /\ [][C18_RegenerateReference]_vars

\* a run of three panels whose first panel failed: the second panel's call
\* carried no reference and the third the second panel's image; the third
\* panel is being regenerated with the second panel's image as reference
C18_Witness ==
    /\ runPc = "done"
    /\ Len(imageRequest) = 3
    /\ finalPages[1].generationFailed
    /\ continuityParts(imageRequest[2].previousPanelImage) = <<>>
    /\ imageRequest[3].previousPanelImage = PngImage("panel 2")
    /\ finalPages[1].image # finalPages[2].image
    /\ panelOps[1].kind = "regenerate"
    /\ panelOps[1].pc = "image"
    /\ panelOps[1].pageIndex = 2
    /\ panelOps[1].request[1].previousPanelImage = PngImage("panel 2")

(***************************************************************************)
(* Panels reordered, under SpecReorder.                                    *)
(***************************************************************************)
\* a panel's record without its page number
unnumbered(page) == [page EXCEPT !.page = 0]

\* the one-to-one maps of the positions 1..n
Rearrangements(n) == {f \in [1..n -> 1..n] : \A a, b \in 1..n : f[a] = f[b] => a = b}

\* C21: after every handleReorderPages(dragIndex, dropIndex) on a list of n
\* panels the panel at position k has page number k+1 for every k in
\* 0..n-1, the list holds the same n panels as before, each unchanged in
\* every field but the page number, and the dragged panel is at dropIndex.
C21_ReorderRenumbers ==
    [][reorders' # reorders =>
          LET before == currentProject.storyPages
              after == currentProject'.storyPages
              last == reorders'[Len(reorders')]
          IN  /\ Len(after) = Len(before)
              /\ \A k \in 1..Len(after) : after[k].page = k
              /\ \E f \in Rearrangements(Len(before)) :
                    \A k \in 1..Len(after) :
                        unnumbered(after[k]) = unnumbered(before[f[k]])
              /\ unnumbered(after[last.dropIndex + 1]) =
                     unnumbered(before[last.dragIndex + 1])
              /\ projects'[1].storyPages = after]_vars

\* the first panel has been dragged to the end and then a panel that is
\* being regenerated has been dragged to the front
C21_Witness ==
    /\ Len(reorders) = 2
    /\ reorders[1] = [dragIndex |-> 0, dropIndex |-> StoryPanels - 1]
    /\ reorders[2].dropIndex = 0
    /\ currentProject.storyPages[1].isGenerating
    /\ currentProject.storyPages[1].page = 1
    /\ currentProject.storyPages[StoryPanels].description = "panel 1"

(***************************************************************************)
(* The stages of a run, under Spec.                                        *)
(***************************************************************************)
\* the step in which generateStory returns its pages to handleGenerateStory
scriptStageEnds == runPc = "script" /\ runPc' \notin {"script", "failed"}

\* C22: whatever order the backend returns the script panels in, the panel
\* list published at the end of the script stage is sorted by page number
\* ascending and every panel in it has isGenerating=true, no image,
\* lettering=null and generationFailed=false.  (If the cancellation flag
\* was raised during the script call, the image loop marks the panels of
\* that list as cancelled in the same stretch of code, and they are seen
\* with just these marks written over.)
C22_ScriptPublishedSorted ==
    [][scriptStageEnds =>
          LET pages == pagesWithImages'
          IN  /\ \A k \in 1..(Len(pages) - 1) : pages[k].page < pages[k + 1].page
              /\ \A k \in 1..Len(pages) :
                    /\ ~hasImage(pages[k].image)
                    /\ pages[k].lettering = NullLettering
                    /\ ~pages[k].isLettering
                    /\ IF generationCancelledRef
                       THEN /\ ~pages[k].isGenerating
                            /\ pages[k].generationFailed
                            /\ pages[k].failureReason = CancelReason
                       ELSE /\ pages[k].isGenerating
                            /\ ~pages[k].generationFailed
              /\ currentProject # NoProject =>
                    /\ currentProject'.storyPages = pages
                    /\ currentProject'.stage = "story-panels"
                    /\ currentProject'.generatedFromChapterTitle = runChapter]_vars

\* the script has come back with two panels, which are shown in page order
\* and as being generated, and the first image call is in flight
C22_Witness ==
    /\ runPc = "images"
    /\ panelIndex = 0
    /\ imageCall[1].st = "awaiting"
    /\ Len(currentProject.storyPages) = 2
    /\ currentProject.storyPages[1].page = 1
    /\ currentProject.storyPages[2].page = 2
    /\ \A k \in 1..2 : currentProject.storyPages[k].isGenerating

\* the step in which the image call of the panel at panelIndex is over
imageCallEnds == runPc = "images" /\ panelIndex' = panelIndex + 1

\* C23: in the sequential image stage the updated panel list is published
\* (updateCurrentProject) after each panel's outcome, success or failure,
\* and before the image call of the next panel starts; the k-th such
\* publication holds the final image-stage outcome of the panels 0..k-1,
\* and the panels from k on still with isGenerating=true.  (With the
\* cancellation flag raised, the next turn of the loop marks the panels
\* from k on as cancelled in the same stretch of code.)
C23_PublishedAfterEachOutcome ==
    [][imageCallEnds =>
          LET before == pagesWithImages
              after == pagesWithImages'
              k == panelIndex + 1
          IN  /\ Len(after) = Len(before)
              /\ \A j \in 1..(k - 1) :
                    after[j] = before[j] /\ outcomeWritten(after[j])
              /\ settledRecord(before[k], after[k])
              /\ \A j \in (k + 1)..Len(after) :
                    /\ imageCall[j].st = "idle"
                    /\ before[j].isGenerating
                    /\ IF generationCancelledRef
                       THEN after[j] = [before[j] EXCEPT
                                           !.isGenerating = FALSE,
                                           !.generationFailed = TRUE,
                                           !.failureReason = CancelReason]
                       ELSE after[j] = before[j]
              /\ (currentProject # NoProject /\ runPc' # "done") =>
                    currentProject'.storyPages = after
              /\ (currentProject # NoProject /\ runPc' = "done") =>
                    currentProject'.storyPages = finalPages']_vars

\* the first panel's failure is on the screen, the second panel is shown as
\* being generated and its image call is in flight
C23_Witness ==
    /\ runPc = "images"
    /\ panelIndex = 1
    /\ imageCall[1].st = "thrown"
    /\ imageCall[2].st = "awaiting"
    /\ Len(currentProject.storyPages) = 2
    /\ currentProject.storyPages = pagesWithImages
    /\ currentProject.storyPages[1].generationFailed
    /\ ~currentProject.storyPages[1].isGenerating
    /\ currentProject.storyPages[2].isGenerating

(***************************************************************************)
(* The cursor from one call to the next, under SpecSeq.                    *)
(***************************************************************************)
\* the key index of the last attempt a call has made
lastTried(call) == call.tried[Len(call.tried)]

\* C24: the round-robin cursor is never reset between calls: when
\* geminiApiCall is invoked one call after another, each call's first
\* attempt uses the credential right after (modulo the pool size) the one
\* the last attempt of the previous call used, so that K consecutive
\* first-attempt successes use K consecutive pool indices.
C24_CursorCarriesOver ==
    \A c \in 2..MaxCallers :
        started(calls[c]) =>
            /\ over(calls[c - 1])
            /\ calls[c].tried[1] = (lastTried(calls[c - 1]) + 1) % Len(apiKeys)
            /\ calls[c].start = calls[c].tried[1]
            /\ (Len(calls[c - 1].tried) = 1 /\ Len(calls[c].tried) = 1) =>
                   calls[c].tried[1] = (calls[c - 1].tried[1] + 1) % Len(apiKeys)

\* with three keys, the first call got its result from the second key and
\* the next call has begun at the third
C24_Witness ==
    /\ Len(apiKeys) = 3
    /\ calls[1].st = "returned"
    /\ calls[1].tried = <<0, 1>>
    /\ calls[2].st = "awaiting"
    /\ calls[2].tried = <<2>>
    /\ currentKeyIndex = 0

(***************************************************************************)
(* Calls that overlap on the shared cursor, under SpecCalls.               *)
(***************************************************************************)
\* C25: when several geminiApiCall invocations run concurrently on the
\* shared cursor, every invocation that ends with the all-keys-exhausted
\* error has attempted every credential of the pool at least once, and no
\* call tries the same credential twice.
C25_ExhaustedCallTriedEveryKey ==
    \A c \in 1..MaxCallers :
        LET call == calls[c]
        IN  /\ exhausted(call) =>
                   \A idx \in 0..(Len(apiKeys) - 1) :
                       \E a \in 1..Len(call.tried) : call.tried[a] = idx
            /\ \A a, b \in 1..Len(call.tried) :
                   call.tried[a] = call.tried[b] => a = b

\* with two keys and two calls in flight, the first call was rate-limited
\* twice on the first key and has reported exhaustion without trying the
\* second key, with which the other call got its result
C25_Witness ==
    /\ Len(apiKeys) = 2
    /\ exhausted(calls[1])
    /\ calls[1].tried = <<0, 0>>
    /\ calls[2].st = "returned"
    /\ calls[2].tried = <<1>>

(***************************************************************************)
(* Where a cancellation takes effect, under Spec.                          *)
(***************************************************************************)
\* a run that had panels to draw ended without its lettering stage only if
\* one of its panels carries the cancellation mark
C26_SkippedMeansMarked ==
    (runPc = "cancelled" /\ Len(pagesWithImages) > 0) =>
        \E k \in 1..Len(pagesWithImages) :
            /\ pagesWithImages[k].generationFailed
            /\ pagesWithImages[k].failureReason = CancelReason

\* a run whose image loop went through all its panels has had its lettering
\* stage
C26_LoopRunThroughIsLettered ==
    (runPc \in {"done", "cancelled"} /\ Len(pagesWithImages) > 0
        /\ panelIndex = Len(pagesWithImages)
        /\ over(imageCall[Len(pagesWithImages)])) =>
        /\ runPc = "done"
        /\ Len(letteringPromises) = Len(pagesWithImages)

\* C26: a cancel signal takes effect only at the top of an image-loop
\* iteration: whenever a run that produced its script skips the lettering
\* stage, at least one panel of that run was marked generationFailed with
\* the cancellation reason; a cancel raised while the last panel's image
\* call is in flight does not prevent the lettering of the panels that have
\* images.
C26_CancelOnlyAtLoopTop ==
    /\ C26_SkippedMeansMarked
    /\ C26_LoopRunThroughIsLettered

\* the run ended as cancelled after the image calls of both its panels
\* returned: both panels have their images, none is marked as cancelled,
\* and no lettering call was made
C26_Witness ==
    /\ runPc = "cancelled"
    /\ Len(pagesWithImages) = 2
    /\ panelIndex = 2
    /\ \A k \in 1..2 :
          /\ imageCall[k].st = "returned"
          /\ hasImage(pagesWithImages[k].image)
          /\ ~pagesWithImages[k].generationFailed
          /\ pagesWithImages[k].isLettering
    /\ letteringCall = <<>>
    /\ ~generationCancelledRef

(***************************************************************************)
(* The panel records the single-panel operations leave, under              *)
(* SpecPanelOps.                                                           *)
(***************************************************************************)
\* every panel on the screen that is marked failed has no image
C27_NoFailedPanelWithImage ==
    \A k \in 1..Len(storyPages) :
        storyPages[k].generationFailed => ~hasImage(storyPages[k].image)

\* the list a failed handleRegeneratePanel published last has its panel
\* without image and without lettering
C27_FailedRegenerationClears ==
    \A o \in 1..MaxOps :
        (panelOps[o].kind = "regenerate" /\ panelOps[o].pc = "failed") =>
            LET page == panelOps[o].pagesInProgress[panelOps[o].pageIndex + 1]
            IN  /\ page.generationFailed
                /\ ~hasImage(page.image)
                /\ page.lettering.null

\* C27: in every reachable state, after any sequence of generate-chapter,
\* cancel, regenerate-panel and edit-panel operations, a panel with
\* generationFailed=true has image=null; in particular a failed
\* handleRegeneratePanel leaves the panel without an image and without
\* lettering.
C27_FailedMeansNoImage ==
    /\ C27_NoFailedPanelWithImage
    /\ C27_FailedRegenerationClears

\* the regeneration of the second panel, which was complete, got its new
\* image and failed at the lettering call: the panel is marked failed and
\* shows the image it had before the click
C27_Witness ==
    /\ panelOps[1].kind = "regenerate"
    /\ panelOps[1].pc = "failed"
    /\ panelOps[1].pageIndex = 1
    /\ panelOps[1].call.st = "thrown"
    /\ panelOps[1].call.thrown = ErrParseLettering
    /\ panelOps[2].pc = "idle"
    /\ storyPages[2].generationFailed
    /\ storyPages[2].failureReason = ErrParseLettering.userFriendlyMessage
    /\ storyPages[2].image = CompletePanel(2).image

\* operation o has run to its end without an error
opDone(o) == panelOps[o].pc = "done"

\* the record operation o has given its own panel
ownRecord(o) == panelOps[o].pagesInProgress[panelOps[o].pageIndex + 1]

\* C29: when two single-panel operations (handleRegeneratePanel or
\* handleEditPanel) are started on two different panels a and b before
\* either has finished, both take effect: after both have completed, panel
\* a holds the result of its own operation and panel b holds the result of
\* its own operation, whatever the order in which their backend calls
\* return.
C29_BothOperationsTakeEffect ==
    (/\ opDone(1)
     /\ opDone(2)
     /\ panelOps[1].pageIndex # panelOps[2].pageIndex
     /\ letteringEdits = 0) =>
        \A o \in 1..2 :
            storyPages[panelOps[o].pageIndex + 1] = ownRecord(o)

\* the first panel was regenerated and the second edited at the same time,
\* the edit finished first and the regeneration last: the second panel
\* shows the image it had before the edit
C29_Witness ==
    /\ opDone(1)
    /\ opDone(2)
    /\ panelOps[1].kind = "regenerate"
    /\ panelOps[1].pageIndex = 0
    /\ panelOps[2].kind = "edit"
    /\ panelOps[2].pageIndex = 1
    /\ letteringEdits = 0
    /\ ownRecord(2).image = PngImage("panel 2, edited")
    /\ storyPages[1] = ownRecord(1)
    /\ storyPages[2].image = PngImage("panel 2")
    /\ ~storyPages[2].lettering.null

(***************************************************************************)
(* The flags of a panel, under SpecEditModal.                              *)
(***************************************************************************)
\* C28: in every reachable state, after any sequence of generate-chapter,
\* cancel, regenerate-panel and edit-panel operations, no panel has
\* isGenerating=true and isLettering=true at the same time, and a panel
\* with isLettering=true has a non-null image and generationFailed not
\* true.
C28_FlagsExclusive ==
    \A k \in 1..Len(storyPages) :
        /\ ~(storyPages[k].isGenerating /\ storyPages[k].isLettering)
        /\ storyPages[k].isLettering =>
               /\ hasImage(storyPages[k].image)
               /\ ~storyPages[k].generationFailed

\* an edit applied in the modal has found its panel waiting for the
\* lettering of a regeneration: the panel is shown as being generated and
\* as being lettered at once
C28_Witness ==
    /\ panelOps[3].kind = "edit"
    /\ panelOps[3].pc = "image"
    /\ panelOps[3].pageIndex = 1
    /\ panelOps[2].kind = "regenerate"
    /\ panelOps[2].pc = "lettering"
    /\ panelOps[2].pageIndex = 1
    /\ editingPanelIndex = NoPanel
    /\ storyPages[2].isGenerating
    /\ storyPages[2].isLettering
    /\ hasImage(storyPages[2].image)

(***************************************************************************)
(* The end of a run, under SpecRuns, in which every backend call in flight *)
(* is answered at some time.                                               *)
(***************************************************************************)
\* the calls to the backend a run has made: its script call and the image
\* and lettering calls of its panels
runCalls ==
    {scriptCall} \cup {imageCall[k] : k \in 1..Len(imageCall)} \cup
    {letteringCall[k] : k \in 1..Len(letteringCall)}

\* a run makes no more image and lettering operations than it has panels,
\* and no operation more attempts than there are keys
C30_AttemptsBounded ==
    /\ Len(imageCall) \in {0, Len(pagesWithImages)}
    /\ Len(letteringCall) \in {0, Len(pagesWithImages)}
    /\ \A call \in runCalls :
          /\ Len(call.tried) <= Len(apiKeys)
          /\ call.i < Len(apiKeys) \/ call.st = "thrown"

\* an operation that is over is not made again in the same run
C30_EachOperationOnce ==
    runs' = runs =>
        /\ over(scriptCall) => scriptCall' = scriptCall
        /\ \A k \in 1..Len(imageCall) : over(imageCall[k]) => imageCall'[k] = imageCall[k]
        /\ \A k \in 1..Len(letteringCall) :
              over(letteringCall[k]) => letteringCall'[k] = letteringCall[k]

\* while no run is active the cancellation flag is false
C30_FlagDownBetweenRuns == ~RunActive => ~generationCancelledRef

\* C30: assuming every backend call eventually returns, a
\* handleGenerateStory run over P panels with a pool of N credentials always
\* terminates, under every interleaving with cancel signals, after at most
\* one script operation, P image operations and P lettering operations,
\* each of which invokes the backend at most N times; when it ends on any
\* path (success, script failure, cancellation) the cancellation flag is
\* false, so a cancel raised during one run never affects the next run.
C30_RunTerminatesFlagDown ==
    /\ RunActive ~> ~RunActive
    /\ []C30_AttemptsBounded
    /\ [][C30_EachOperationOnce]_vars
    /\ []C30_FlagDownBetweenRuns
    /\ [][runs' # runs => ~generationCancelledRef']_vars

\* a second run got its script and is drawing its first panel, with two
\* keys, after a first run that was cancelled while its script was made: the
\* panels of that run were on the screen as cancelled when it began
C30_Witness ==
    /\ runs = 2
    /\ Len(apiKeys) = 2
    /\ runPc = "images"
    /\ ~generationCancelledRef
    /\ imageCall[1].st = "awaiting"
    /\ runChapter = "Chapter 2"
    /\ currentProject.generatedFromChapterTitle = "Chapter 2"
    /\ Len(currentProject.storyPages) = 2
    /\ currentProject.storyPages[1].isGenerating
====
